---- MODULE Spec2Model ----
(***************************************************************************)
(* Memory-management core of hft-zero: the physical frame allocator        *)
(* (hft.pmm), the address space manager (hft.vmm) and the kernel heap      *)
(* (hft.heap), modelled as layered state transformers.                     *)
(*                                                                         *)
(* A 64-bit unsigned value that can carry bit 63 or sub-page bits is kept  *)
(* as a record [nx, pfn, low]: bit 63, bits 12..62 and bits 0..11.         *)
(* Virtual addresses used by the region allocator and the heap stay below  *)
(* 2^31 and are plain integers.                                            *)
(***************************************************************************)
EXTENDS Integers, Sequences, FiniteSets, TLC

VARIABLES pmm, vmm, heap, last, held, regions, live

vars == <<pmm, vmm, heap, last, held, regions, live>>

(***************************************************************************)
(* Bounds of the model                                                     *)
(***************************************************************************)
\* frames the boot configurations leave free in the normal zone
NormalFrames == 4
\* largest count passed to allocate_pages / free_pages
MaxCount == 2
\* cap on the global free-page statistic (it grows without bound on
\* repeated frees)
MaxFreeStat == 5
\* pages the kernel mapping loop of vmm::init maps
KernelMapPages == 1
\* frames the larger boot configurations of the address-space
\* specifications leave free in the normal zone
VmmFrames == 8
\* cap on the mapped-page counter of the kernel address space
MaxMapped == 3
\* largest page count passed to allocate_region
MaxRegionPages == 2
\* pages the bump pointer of allocate_region may advance in all
MaxVirtPages == 3
\* frames the larger boot configuration of the heap specification leaves
\* free in the normal zone
HeapFrames == 10
\* pages the heap may take from allocate_region in all
MaxHeapPages == 3
\* live allocations at any time
MaxLive == 2
\* frames above 16 MiB that the smallest fallback memory size has
FallbackFrames == 160
\* frames above 16 MiB at which the highest kernel image starts
KernelShift == 5
\* largest length, in frames, of the memory-map region around the kernel
MaxRegionFrames == 3
\* most frames left free after vmm::init in the boot configurations with
\* few frames
ScarceFrames == 3

(***************************************************************************)
(* 64-bit words                                                            *)
(***************************************************************************)
PAGE_SIZE == 4096

U64(nx, pfn, low) == [nx |-> nx, pfn |-> pfn, low |-> low]
Zero == U64(FALSE, 0, 0)
PageAddr(pfn) == U64(FALSE, pfn, 0)

\* page numbers at or above Bit63Page stand for addresses with bit 63 set
Bit63Page == 2^30

\* addr / PAGE_SIZE
PageOf(w) == IF w.nx THEN Bit63Page + w.pfn ELSE w.pfn

\* a < b on 64-bit values
Below(a, b) ==
    \/ PageOf(a) < PageOf(b)
    \/ PageOf(a) = PageOf(b) /\ a.low < b.low

\* a + b (no carry out of bit 62 in the ranges used)
Plus(a, b) ==
    U64(a.nx \/ b.nx,
        a.pfn + b.pfn + ((a.low + b.low) \div PAGE_SIZE),
        (a.low + b.low) % PAGE_SIZE)

\* (a + PAGE_SIZE - 1) / PAGE_SIZE
PageUp(w) == PageOf(w) + (IF w.low > 0 THEN 1 ELSE 0)

SetMin(S) == CHOOSE x \in S : \A y \in S : x <= y

\* a local value: Let(e, LAMBDA x : F) is F with x bound to e
Let(e, F(_)) == F(e)
\* the same with e evaluated to a value before F is applied
Value(e, F(_)) == CHOOSE r \in {F(x) : x \in {e}} : TRUE

(***************************************************************************)
(* hft.pmm: bitmap_allocator                                               *)
(* The bitmap is kept as the set of page numbers whose bit is 0 (free);    *)
(* every other bit of every word is 1.                                     *)
(***************************************************************************)
WORD_BITS == 64
NoPage == -1

zone_dma == 0
zone_normal == 1
zone_high == 2
ZoneTypes == {zone_dma, zone_normal, zone_high}

DMA_LIMIT == (16 * 1024 * 1024) \div PAGE_SIZE
HIGH_BASE == 1024 * 1024
DMA_PAGES == DMA_LIMIT
NORMAL_PAGES == HIGH_BASE - DMA_LIMIT
HIGH_PAGES == 4 * HIGH_BASE - HIGH_BASE

bitmap_init(num_pages) ==
    [bitmap |-> {},
     bitmap_size |-> (num_pages + 63) \div WORD_BITS,
     total_pages |-> num_pages,
     first_free_page |-> 0,
     free_pages |-> 0]

\* mark_free without the test of the bit: a variant that counts every call
mark_free_unguarded(z, page_num) ==
    IF page_num >= z.total_pages THEN z
    ELSE [z EXCEPT !.bitmap = @ \cup {page_num},
                   !.free_pages = @ + 1,
                   !.first_free_page = IF page_num < @ THEN page_num ELSE @]

\* mark_free that leaves the hint alone: a variant whose hint can pass a
\* free page
mark_free_keep_hint(z, page_num) ==
    IF page_num >= z.total_pages THEN z
    ELSE IF page_num \notin z.bitmap
         THEN [z EXCEPT !.bitmap = @ \cup {page_num},
                        !.free_pages = @ + 1]
         ELSE z

mark_free(z, page_num) ==
    IF page_num >= z.total_pages THEN z
    ELSE IF page_num \notin z.bitmap
         THEN [z EXCEPT !.bitmap = @ \cup {page_num},
                        !.free_pages = @ + 1,
                        !.first_free_page = IF page_num < @ THEN page_num ELSE @]
         ELSE z

mark_used(z, page_num) ==
    IF page_num >= z.total_pages THEN z
    ELSE IF page_num \in z.bitmap
         THEN [z EXCEPT !.bitmap = @ \ {page_num},
                        !.free_pages = @ - 1]
         ELSE z

\* the lowest clear bit of every word at or after the hint's word
LowestClearBits(z) ==
    LET from == z.first_free_page \div WORD_BITS
        cand == {p \in z.bitmap : p \div WORD_BITS >= from
                                  /\ p \div WORD_BITS < z.bitmap_size}
    IN {p \in cand : \A q \in cand :
            q \div WORD_BITS = p \div WORD_BITS => p <= q}

\* allocate without the scan for a clear bit: a variant that takes the
\* page at the hint whatever its bit
allocate_any_bit(z) ==
    IF z.total_pages > z.first_free_page
    THEN [z |-> [mark_used(z, z.first_free_page)
                    EXCEPT !.first_free_page = @ + 1],
          page |-> z.first_free_page]
    ELSE [z |-> z, page |-> NoPage]

allocate(z) ==
    Let({p \in LowestClearBits(z) : p < z.total_pages}, LAMBDA ok :
        IF ok = {} THEN [z |-> z, page |-> NoPage]
        ELSE Let(SetMin(ok), LAMBDA page_num :
             Let(mark_used(z, page_num), LAMBDA m :
                 [z |-> IF page_num = z.first_free_page
                        THEN [m EXCEPT !.first_free_page = page_num + 1]
                        ELSE m,
                  page |-> page_num])))

RECURSIVE mark_used_run(_, _, _)
mark_used_run(z, start_page, count) ==
    IF count = 0 THEN z
    ELSE mark_used(mark_used_run(z, start_page, count - 1),
                   start_page + count - 1)

\* the page loop without the reset of the counter at a used page: a
\* variant that counts free pages whether or not they are adjacent
RECURSIVE scan_run_no_reset(_, _, _, _, _)
scan_run_no_reset(z, page, consecutive, start_page, count) ==
    IF page >= z.total_pages \/ \A p \in z.bitmap : p < page THEN NoPage
    ELSE IF page \in z.bitmap
    THEN IF consecutive + 1 = count
         THEN (IF consecutive = 0 THEN page ELSE start_page)
         ELSE scan_run_no_reset(z, page + 1, consecutive + 1,
                                IF consecutive = 0 THEN page ELSE start_page,
                                count)
    ELSE scan_run_no_reset(z, page + 1, consecutive, start_page, count)

\* the page loop of allocate_contiguous from `page` on: the start of the
\* first stretch of `count` free pages, or NoPage; the pages after the last
\* clear bit are all used and only reset the counter
RECURSIVE scan_run(_, _, _, _, _)
scan_run(z, page, consecutive, start_page, count) ==
    IF page >= z.total_pages \/ \A p \in z.bitmap : p < page THEN NoPage
    ELSE IF page \in z.bitmap
    THEN IF consecutive + 1 = count
         THEN (IF consecutive = 0 THEN page ELSE start_page)
         ELSE scan_run(z, page + 1, consecutive + 1,
                       IF consecutive = 0 THEN page ELSE start_page, count)
    ELSE scan_run(z, page + 1, 0, start_page, count)

allocate_contiguous(z, count) ==
    IF count = 0 THEN [z |-> z, page |-> NoPage]
    ELSE IF count = 1 THEN allocate(z)
    ELSE Let(scan_run(z, 0, 0, 0, count), LAMBDA start_page :
             IF start_page = NoPage THEN [z |-> z, page |-> NoPage]
             ELSE [z |-> mark_used_run(z, start_page, count),
                   page |-> start_page])

free(z, page_num) == mark_free(z, page_num)

RECURSIVE free_contiguous(_, _, _)
free_contiguous(z, start_page, count) ==
    IF count = 0 THEN z
    ELSE mark_free(free_contiguous(z, start_page, count - 1),
                   start_page + count - 1)

(***************************************************************************)
(* hft.pmm: global state, initialisation                                   *)
(***************************************************************************)
\* static storage before init: zero-initialised statistics
pmm_boot ==
    [zones |-> [t \in ZoneTypes |-> bitmap_init(0)],
     stats |-> [total_pages |-> 0, free_pages |-> 0,
                reserved_pages |-> 0, kernel_pages |-> 0],
     memory_size |-> Zero,
     kernel_start |-> Zero,
     kernel_end |-> Zero]

\* the three zones[...].init calls of init and init_fallback
zones_init(P, kernel_phys_start, kernel_phys_end) ==
    [P EXCEPT !.kernel_start = kernel_phys_start,
              !.kernel_end = kernel_phys_end,
              !.zones = [t \in ZoneTypes |->
                  bitmap_init(CASE t = zone_dma -> DMA_PAGES
                                [] t = zone_normal -> NORMAL_PAGES
                                [] OTHER -> HIGH_PAGES)]]

InKernel(P, page) ==
    /\ ~Below(PageAddr(page), P.kernel_start)
    /\ Below(PageAddr(page), P.kernel_end)

\* body of the page loop of parse_memory_map for one page
parse_page(P, page) ==
    IF InKernel(P, page) THEN P
    ELSE LET Q == IF page < DMA_LIMIT
                  THEN [P EXCEPT !.zones[zone_dma] = mark_free(@, page)]
                  ELSE IF page < HIGH_BASE
                  THEN [P EXCEPT !.zones[zone_normal] =
                                    mark_free(@, page - DMA_LIMIT)]
                  ELSE [P EXCEPT !.zones[zone_high] =
                                    mark_free(@, page - HIGH_BASE)]
         IN [Q EXCEPT !.stats.free_pages = @ + 1]

\* the page loop over page..end_page-1: the first half of the range, then
\* the second
RECURSIVE parse_pages(_, _, _)
parse_pages(P, page, end_page) ==
    IF page >= end_page THEN P
    ELSE IF end_page = page + 1 THEN parse_page(P, page)
    ELSE Value(parse_pages(P, page, (page + end_page) \div 2), LAMBDA Q :
               parse_pages(Q, (page + end_page) \div 2, end_page))

\* one memory_region entry
parse_entry(P, entry) ==
    IF entry.type = 1
    THEN LET end_addr == Plus(entry.base, entry.length)
             start_page == PageUp(entry.base)
             end_page == PageOf(end_addr)
             Q == [P EXCEPT !.memory_size =
                       IF Below(@, end_addr) THEN end_addr ELSE @]
             R == parse_pages(Q, start_page, end_page)
         IN [R EXCEPT !.stats.total_pages = end_page]
    ELSE P

RECURSIVE parse_entries(_, _, _)
parse_entries(P, mmap, i) ==
    IF i > Len(mmap) THEN P
    ELSE parse_entries(parse_entry(P, mmap[i]), mmap, i + 1)

parse_memory_map(P, mmap) ==
    parse_entries([P EXCEPT !.memory_size = Zero], mmap, 1)

pmm_init(P, mmap, kernel_phys_start, kernel_phys_end) ==
    LET Q == zones_init(P, kernel_phys_start, kernel_phys_end)
    IN IF Len(mmap) > 0 THEN parse_memory_map(Q, mmap) ELSE Q

\* bytes of bitmap storage of a zone: (pages + 63) / 64 * 8
BitmapBytes(pages) == ((pages + 63) \div WORD_BITS) * 8

\* body of the page loop of init_fallback for the page with number `page`
fallback_page(P, page, bitmap_phys_start, bitmap_end) ==
    IF InKernel(P, page) THEN P
    ELSE IF ~Below(PageAddr(page), bitmap_phys_start)
            /\ Below(PageAddr(page), bitmap_end) THEN P
    ELSE [P EXCEPT !.zones[zone_normal] = mark_free(@, page - DMA_LIMIT),
                   !.stats.free_pages = @ + 1]

\* the loop body applied to the pages first..(end_page - 1) in ascending
\* order; the range is halved, and the state after the first half is
\* computed before the second half starts, to keep the evaluation shallow
RECURSIVE fallback_range(_, _, _, _, _)
fallback_range(P, first, end_page, bitmap_phys_start, bitmap_end) ==
    IF end_page <= first THEN P
    ELSE IF end_page = first + 1
    THEN fallback_page(P, first, bitmap_phys_start, bitmap_end)
    ELSE Value(fallback_range(P, first, (first + end_page) \div 2,
                              bitmap_phys_start, bitmap_end), LAMBDA Q :
             fallback_range(Q, (first + end_page) \div 2, end_page,
                            bitmap_phys_start, bitmap_end))

\* the page loop for (addr = page * PAGE_SIZE; addr < total_mem; ...)
fallback_pages(P, page, total_mem, bitmap_phys_start, bitmap_end) ==
    fallback_range(P, page, PageUp(total_mem), bitmap_phys_start, bitmap_end)

init_fallback(P, kernel_phys_start, kernel_phys_end, total_mem) ==
    LET Q == [zones_init(P, kernel_phys_start, kernel_phys_end)
                 EXCEPT !.memory_size = total_mem]
        bitmap_bytes == BitmapBytes(DMA_PAGES) + BitmapBytes(NORMAL_PAGES)
                            + BitmapBytes(HIGH_PAGES)
        bitmap_phys_start == PageAddr(PageUp(kernel_phys_end))
        bitmap_end == Plus(bitmap_phys_start,
                           U64(FALSE, bitmap_bytes \div PAGE_SIZE,
                               bitmap_bytes % PAGE_SIZE))
        R == fallback_pages(Q, DMA_LIMIT, total_mem, bitmap_phys_start,
                            bitmap_end)
    IN [R EXCEPT !.stats.total_pages = PageOf(total_mem)]

(***************************************************************************)
(* hft.pmm: allocate_page, allocate_pages, free_page, free_pages           *)
(***************************************************************************)
\* page number of a zone to physical address
ZoneAddr(zone, page_num) ==
    IF zone = zone_dma THEN PageAddr(page_num)
    ELSE IF zone = zone_normal THEN PageAddr(DMA_LIMIT + page_num)
    ELSE PageAddr(HIGH_BASE + page_num)

\* [zones, zone, page]: the fallback allocation from zone `other`, made when
\* the page is still missing and the zone is not `other` already
try_zone(a, other) ==
    IF a.page = NoPage /\ a.zone # other
    THEN Let(allocate(a.zones[other]), LAMBDA b :
             [zones |-> [a.zones EXCEPT ![other] = b.z],
              zone |-> IF b.page # NoPage THEN other ELSE a.zone,
              page |-> b.page])
    ELSE a

allocate_page(P, zone) ==
    Let(allocate(P.zones[zone]), LAMBDA a1 :
    Let(try_zone(try_zone([zones |-> [P.zones EXCEPT ![zone] = a1.z],
                           zone |-> zone, page |-> a1.page],
                          zone_high),
                 zone_dma), LAMBDA a :
        IF a.page # NoPage
        THEN [pmm |-> [P EXCEPT !.zones = a.zones,
                                !.stats.free_pages = @ - 1],
              ret |-> ZoneAddr(a.zone, a.page)]
        ELSE [pmm |-> [P EXCEPT !.zones = a.zones], ret |-> Zero]))

allocate_pages(P, count, zone) ==
    Let(allocate_contiguous(P.zones[zone], count), LAMBDA a :
        IF a.page # NoPage
        THEN [pmm |-> [P EXCEPT !.zones[zone] = a.z,
                                !.stats.free_pages = @ - count],
              ret |-> ZoneAddr(zone, a.page)]
        ELSE [pmm |-> [P EXCEPT !.zones[zone] = a.z], ret |-> Zero])

\* zone and page number of a physical address, as free_page computes them
ZoneOf(addr) ==
    IF PageOf(addr) < DMA_LIMIT THEN zone_dma
    ELSE IF PageOf(addr) < HIGH_BASE THEN zone_normal
    ELSE zone_high

ZonePage(addr) ==
    IF PageOf(addr) < DMA_LIMIT THEN PageOf(addr)
    ELSE IF PageOf(addr) < HIGH_BASE THEN PageOf(addr) - DMA_LIMIT
    ELSE PageOf(addr) - HIGH_BASE

\* free_page with the global counter guarded by the frame's bit: a variant
\* that counts a frame only when it was used
free_page_guarded(P, addr) ==
    IF addr = Zero THEN P
    ELSE [P EXCEPT !.zones[ZoneOf(addr)] = free(@, ZonePage(addr)),
                   !.stats.free_pages =
                       @ + free(P.zones[ZoneOf(addr)],
                                ZonePage(addr)).free_pages
                         - P.zones[ZoneOf(addr)].free_pages]

free_page(P, addr) ==
    IF addr = Zero THEN P
    ELSE [P EXCEPT !.zones[ZoneOf(addr)] = free(@, ZonePage(addr)),
                   !.stats.free_pages = @ + 1]

RECURSIVE free_pages(_, _, _)
free_pages(P, addr, count) ==
    IF count = 0 THEN P
    ELSE free_page(free_pages(P, addr, count - 1),
                   Plus(addr, PageAddr(count - 1)))

get_stats(P) == P.stats

(***************************************************************************)
(* hft.vmm: page_flags, virtual_address, page tables                       *)
(* A machine state M is [pmm, vmm]; vmm.mem maps the physical address of   *)
(* every frame that was cleared as a page_table to its non-zero entries.   *)
(***************************************************************************)
present == U64(FALSE, 0, 1)
writable == U64(FALSE, 0, 2)
user == U64(FALSE, 0, 4)
large == U64(FALSE, 0, 128)
global == U64(FALSE, 0, 256)
no_execute == U64(TRUE, 0, 0)

RECURSIVE BitOr(_, _)
BitOr(a, b) ==
    IF a = 0 THEN b
    ELSE IF b = 0 THEN a
    ELSE (IF a % 2 = 1 \/ b % 2 = 1 THEN 1 ELSE 0)
            + 2 * BitOr(a \div 2, b \div 2)

\* a | b
Or(a, b) == U64(a.nx \/ b.nx, BitOr(a.pfn, b.pfn), BitOr(a.low, b.low))

\* (entry & flag) != 0 for a flag in the low 12 bits
Has(entry, flag) == (entry.low \div flag.low) % 2 = 1

\* entry & ~0xFFF: the int -4096 widens to 0xFFFFFFFFFFFFF000, bit 63 kept
MaskPage(entry) == U64(entry.nx, entry.pfn, 0)

\* entry & ~0x1FFFFF and entry & ~0x3FFFFFFF
Mask2M(entry) == U64(entry.nx, entry.pfn - (entry.pfn % 512), 0)
Mask1G(entry) == U64(entry.nx, entry.pfn - (entry.pfn % (512 * 512)), 0)

ENTRIES == 512

\* the bit-field view of a virtual address
VA(sign_extend, pml4_index, pdpt_index, pd_index, pt_index, offset) ==
    [sign_extend |-> sign_extend, pml4_index |-> pml4_index,
     pdpt_index |-> pdpt_index, pd_index |-> pd_index,
     pt_index |-> pt_index, offset |-> offset]

\* virtual_address(addr) for an address below 2^31
virtual_address(addr) ==
    VA(0, 0,
       (addr \div (PAGE_SIZE * ENTRIES * ENTRIES)) % ENTRIES,
       (addr \div (PAGE_SIZE * ENTRIES)) % ENTRIES,
       (addr \div PAGE_SIZE) % ENTRIES,
       addr % PAGE_SIZE)

EmptyTable == [i \in {} |-> Zero]

Entry(mem, table, idx) ==
    IF table \in DOMAIN mem /\ idx \in DOMAIN mem[table]
    THEN mem[table][idx] ELSE Zero

\* table->entries[idx] = w
SetEntry(mem, table, idx, w) ==
    LET t == IF table \in DOMAIN mem THEN mem[table] ELSE EmptyTable
        t2 == IF w = Zero
              THEN [i \in DOMAIN t \ {idx} |-> t[i]]
              ELSE [i \in DOMAIN t \cup {idx} |-> IF i = idx THEN w ELSE t[i]]
    IN [a \in DOMAIN mem \cup {table} |-> IF a = table THEN t2 ELSE mem[a]]

\* page_table::clear on the frame at `table`
ClearTable(mem, table) ==
    [a \in DOMAIN mem \cup {table} |->
        IF a = table THEN EmptyTable ELSE mem[a]]

kernel_id == 0

SpaceOf(M, sid) ==
    IF sid = kernel_id THEN M.vmm.kernel_space ELSE M.vmm.space_pool[sid]

WithSpace(M, sid, sp) ==
    IF sid = kernel_id THEN [M EXCEPT !.vmm.kernel_space = sp]
    ELSE [M EXCEPT !.vmm.space_pool[sid] = sp]

\* address_space::init
space_init(M, sid) ==
    Let(allocate_page(M.pmm, zone_normal), LAMBDA r :
        IF r.ret = Zero THEN [st |-> [M EXCEPT !.pmm = r.pmm], ret |-> FALSE]
        ELSE [st |-> WithSpace(
                        [M EXCEPT !.pmm = r.pmm,
                                  !.vmm.mem = ClearTable(@, r.ret)],
                        sid,
                        [SpaceOf(M, sid) EXCEPT !.pml4 = r.ret]),
              ret |-> TRUE])

get_or_create_table(M, parent, index) ==
    Let(Entry(M.vmm.mem, parent, index), LAMBDA e :
        IF Has(e, present) THEN [st |-> M, table |-> MaskPage(e)]
        ELSE Let(allocate_page(M.pmm, zone_normal), LAMBDA r :
                 IF r.ret = Zero
                 THEN [st |-> [M EXCEPT !.pmm = r.pmm], table |-> Zero]
                 ELSE [st |-> [M EXCEPT
                          !.pmm = r.pmm,
                          !.vmm.mem = SetEntry(ClearTable(@, r.ret),
                                        parent, index,
                                        Or(Or(Or(r.ret, present), writable),
                                           user))],
                       table |-> r.ret]))

\* the walk of map without the final store
map_walk(M, sid, va) ==
    Let(get_or_create_table(M, SpaceOf(M, sid).pml4, va.pml4_index),
        LAMBDA g1 :
        IF g1.table = Zero THEN g1
        ELSE Let(get_or_create_table(g1.st, g1.table, va.pdpt_index),
                 LAMBDA g2 :
                 IF g2.table = Zero THEN g2
                 ELSE get_or_create_table(g2.st, g2.table, va.pd_index)))

map(M, sid, va, phys, flags) ==
    Let(map_walk(M, sid, va), LAMBDA g :
        IF g.table = Zero THEN [st |-> g.st, ret |-> FALSE]
        ELSE Let([g.st EXCEPT !.vmm.mem =
                     SetEntry(@, g.table, va.pt_index,
                              Or(Or(phys, flags), present))], LAMBDA S :
                 [st |-> WithSpace(S, sid,
                            [SpaceOf(S, sid) EXCEPT !.mapped_pages = @ + 1]),
                  ret |-> TRUE]))

\* the read-only walk to the page table of va: Zero when a level is absent
walk_pt(M, sid, va) ==
    Let(Entry(M.vmm.mem, SpaceOf(M, sid).pml4, va.pml4_index), LAMBDA e4 :
        IF ~Has(e4, present) THEN Zero
        ELSE Let(Entry(M.vmm.mem, MaskPage(e4), va.pdpt_index), LAMBDA e3 :
             IF ~Has(e3, present) THEN Zero
             ELSE Let(Entry(M.vmm.mem, MaskPage(e3), va.pd_index), LAMBDA e2 :
                  IF ~Has(e2, present) THEN Zero
                  ELSE MaskPage(e2))))

\* unmap that clears the whole page table: a variant that loses the
\* neighbouring pages
unmap_whole_table(M, sid, va) ==
    Let(walk_pt(M, sid, va), LAMBDA pt :
        IF pt = Zero \/ ~Has(Entry(M.vmm.mem, pt, va.pt_index), present)
        THEN [st |-> M, ret |-> FALSE]
        ELSE [st |-> WithSpace([M EXCEPT !.vmm.mem = ClearTable(@, pt)], sid,
                        [SpaceOf(M, sid) EXCEPT !.mapped_pages = @ - 1]),
              ret |-> TRUE])

\* unmap without the test of the leaf entry: a variant that clears the
\* entry and reports success whenever the page table exists
unmap_any_leaf(M, sid, va) ==
    Let(walk_pt(M, sid, va), LAMBDA pt :
        IF pt = Zero
        THEN [st |-> M, ret |-> FALSE]
        ELSE [st |-> WithSpace(
                        [M EXCEPT !.vmm.mem =
                            SetEntry(@, pt, va.pt_index, Zero)],
                        sid,
                        [SpaceOf(M, sid) EXCEPT !.mapped_pages = @ - 1]),
              ret |-> TRUE])

unmap(M, sid, va) ==
    Let(walk_pt(M, sid, va), LAMBDA pt :
        IF pt = Zero \/ ~Has(Entry(M.vmm.mem, pt, va.pt_index), present)
        THEN [st |-> M, ret |-> FALSE]
        ELSE [st |-> WithSpace(
                        [M EXCEPT !.vmm.mem =
                            SetEntry(@, pt, va.pt_index, Zero)],
                        sid,
                        [SpaceOf(M, sid) EXCEPT !.mapped_pages = @ - 1]),
              ret |-> TRUE])

\* get_physical without the two tests of the large flag: a variant that
\* takes a superpage entry for the address of the next table
get_physical_no_large(M, sid, va) ==
    Let(Entry(M.vmm.mem, SpaceOf(M, sid).pml4, va.pml4_index), LAMBDA e4 :
    IF ~Has(e4, present) THEN Zero
    ELSE Let(Entry(M.vmm.mem, MaskPage(e4), va.pdpt_index), LAMBDA e3 :
    IF ~Has(e3, present) THEN Zero
    ELSE Let(Entry(M.vmm.mem, MaskPage(e3), va.pd_index), LAMBDA e2 :
    IF ~Has(e2, present) THEN Zero
    ELSE Let(Entry(M.vmm.mem, MaskPage(e2), va.pt_index), LAMBDA e1 :
    IF ~Has(e1, present) THEN Zero
    ELSE Or(MaskPage(e1), U64(FALSE, 0, va.offset))))))

get_physical(M, sid, va) ==
    Let(Entry(M.vmm.mem, SpaceOf(M, sid).pml4, va.pml4_index), LAMBDA e4 :
    IF ~Has(e4, present) THEN Zero
    ELSE Let(Entry(M.vmm.mem, MaskPage(e4), va.pdpt_index), LAMBDA e3 :
    IF ~Has(e3, present) THEN Zero
    ELSE IF Has(e3, large)
         THEN Or(Mask1G(e3),
                 U64(FALSE, va.pd_index * ENTRIES + va.pt_index, va.offset))
    ELSE Let(Entry(M.vmm.mem, MaskPage(e3), va.pd_index), LAMBDA e2 :
    IF ~Has(e2, present) THEN Zero
    ELSE IF Has(e2, large)
         THEN Or(Mask2M(e2), U64(FALSE, va.pt_index, va.offset))
    ELSE Let(Entry(M.vmm.mem, MaskPage(e2), va.pt_index), LAMBDA e1 :
    IF ~Has(e1, present) THEN Zero
    ELSE Or(MaskPage(e1), U64(FALSE, 0, va.offset))))))

(***************************************************************************)
(* hft.vmm: global state, init, allocate_region, free_region               *)
(***************************************************************************)
POOL_SIZE == 16
REGION_BASE == 268435456

NewSpace == [pml4 |-> Zero, mapped_pages |-> 0]

\* static storage before vmm::init
vmm_boot ==
    [mem |-> [a \in {} |-> EmptyTable],
     kernel_space |-> NewSpace,
     space_pool |-> [i \in 1..POOL_SIZE |-> NewSpace],
     next_space |-> 0,
     next_virt |-> REGION_BASE]

\* KERNEL_VIRT_BASE + k * PAGE_SIZE, KERNEL_VIRT_BASE = 0xFFFFFFFF80000000
KernelVA(k) == VA(65535, 511, 510, k \div ENTRIES, k % ENTRIES, 0)

RECURSIVE kernel_map_loop(_, _, _)
kernel_map_loop(M, k, kernel_pages) ==
    IF k >= kernel_pages THEN M
    ELSE kernel_map_loop(
            map(M, kernel_id, KernelVA(k), PageAddr(k),
                Or(Or(present, writable), global)).st,
            k + 1, kernel_pages)

\* vmm::init with the kernel mapping loop run for kernel_pages pages
vmm_init(M, kernel_pages) ==
    kernel_map_loop(space_init(M, kernel_id).st, 0, kernel_pages)

\* the null address_space pointer; the pointers of the pool are 1..POOL_SIZE
nullptr == -1

\* the indices of table from i up to limit whose entries are not zero
EntriesFrom(mem, table, i, limit) ==
    IF table \in DOMAIN mem
    THEN {j \in DOMAIN mem[table] : i <= j /\ j < limit} ELSE {}

free_pt(P, pt_phys) == free_page(P, pt_phys)

\* the loop of free_pdt from entry i
RECURSIVE free_pdt_loop(_, _, _, _)
free_pdt_loop(P, mem, pdt_phys, i) ==
    IF EntriesFrom(mem, pdt_phys, i, ENTRIES) = {} THEN P
    ELSE Let(SetMin(EntriesFrom(mem, pdt_phys, i, ENTRIES)), LAMBDA j :
         Value(IF Has(Entry(mem, pdt_phys, j), present)
               THEN free_pt(P, MaskPage(Entry(mem, pdt_phys, j)))
               ELSE P, LAMBDA Q :
             free_pdt_loop(Q, mem, pdt_phys, j + 1)))

free_pdt(P, mem, pdt_phys) ==
    free_page(free_pdt_loop(P, mem, pdt_phys, 0), pdt_phys)

\* the loop of free_pdpt from entry i
RECURSIVE free_pdpt_loop(_, _, _, _)
free_pdpt_loop(P, mem, pdpt_phys, i) ==
    IF EntriesFrom(mem, pdpt_phys, i, ENTRIES) = {} THEN P
    ELSE Let(SetMin(EntriesFrom(mem, pdpt_phys, i, ENTRIES)), LAMBDA j :
         Value(IF Has(Entry(mem, pdpt_phys, j), present)
               THEN free_pdt(P, mem, MaskPage(Entry(mem, pdpt_phys, j)))
               ELSE P, LAMBDA Q :
             free_pdpt_loop(Q, mem, pdpt_phys, j + 1)))

free_pdpt(P, mem, pdpt_phys) ==
    free_page(free_pdpt_loop(P, mem, pdpt_phys, 0), pdpt_phys)

\* the loop of address_space::destroy over the entries i..limit-1 of the
\* top-level table
RECURSIVE destroy_loop(_, _, _, _, _)
destroy_loop(P, mem, pml4, i, limit) ==
    IF EntriesFrom(mem, pml4, i, limit) = {} THEN P
    ELSE Let(SetMin(EntriesFrom(mem, pml4, i, limit)), LAMBDA j :
         Value(IF Has(Entry(mem, pml4, j), present)
               THEN free_pdpt(P, mem, MaskPage(Entry(mem, pml4, j)))
               ELSE P, LAMBDA Q :
             destroy_loop(Q, mem, pml4, j + 1, limit)))

\* destroy that walks all 512 top-level entries: a variant that frees the
\* tables of the kernel half too
destroy_all_entries(M, sid) ==
    IF SpaceOf(M, sid).pml4 = Zero THEN M
    ELSE WithSpace(
            [M EXCEPT !.pmm =
                free_page(destroy_loop(@, M.vmm.mem, SpaceOf(M, sid).pml4,
                                       0, ENTRIES),
                          SpaceOf(M, sid).pml4)],
            sid, [SpaceOf(M, sid) EXCEPT !.pml4 = Zero])

\* address_space::destroy
destroy(M, sid) ==
    IF SpaceOf(M, sid).pml4 = Zero THEN M
    ELSE WithSpace(
            [M EXCEPT !.pmm =
                free_page(destroy_loop(@, M.vmm.mem, SpaceOf(M, sid).pml4,
                                       0, ENTRIES \div 2),
                          SpaceOf(M, sid).pml4)],
            sid, [SpaceOf(M, sid) EXCEPT !.pml4 = Zero])

\* the copy loop of create_address_space: entries 256..511 of the kernel's
\* top-level table stored into the cleared table new_pml4
copy_kernel_half(mem, kernel_pml4, new_pml4) ==
    [mem EXCEPT ![new_pml4] =
        [i \in EntriesFrom(mem, kernel_pml4, ENTRIES \div 2, ENTRIES) |->
            mem[kernel_pml4][i]]]

\* create_address_space that keeps the slot of a failed init: a variant
\* that loses a slot to every failure
create_address_space_keep_slot(M) ==
    IF M.vmm.next_space >= POOL_SIZE THEN [st |-> M, ret |-> nullptr]
    ELSE Let(space_init([M EXCEPT !.vmm.next_space = @ + 1],
                        M.vmm.next_space + 1), LAMBDA r :
         IF ~r.ret
         THEN [st |-> r.st, ret |-> nullptr]
         ELSE [st |-> [r.st EXCEPT !.vmm.mem =
                          copy_kernel_half(@, r.st.vmm.kernel_space.pml4,
                              r.st.vmm.space_pool[M.vmm.next_space + 1].pml4)],
               ret |-> M.vmm.next_space + 1])

\* create_address_space: space_pool[k] of the code is pointer k + 1 here
create_address_space(M) ==
    IF M.vmm.next_space >= POOL_SIZE THEN [st |-> M, ret |-> nullptr]
    ELSE Let(space_init([M EXCEPT !.vmm.next_space = @ + 1],
                        M.vmm.next_space + 1), LAMBDA r :
         IF ~r.ret
         THEN [st |-> [r.st EXCEPT !.vmm.next_space = @ - 1],
               ret |-> nullptr]
         ELSE [st |-> [r.st EXCEPT !.vmm.mem =
                          copy_kernel_half(@, r.st.vmm.kernel_space.pml4,
                              r.st.vmm.space_pool[M.vmm.next_space + 1].pml4)],
               ret |-> M.vmm.next_space + 1])

\* destroy_address_space that skips the test for the kernel space: a
\* variant that tears the kernel's lower half down
destroy_address_space_any(M, space) ==
    IF space # nullptr THEN destroy(M, space) ELSE M

destroy_address_space(M, space) ==
    IF space # nullptr /\ space # kernel_id THEN destroy(M, space) ELSE M

\* unmap virt and free the frame it translated to
release_page(M, v) ==
    Let(get_physical(M, kernel_id, v), LAMBDA p :
        [unmap(M, kernel_id, v).st EXCEPT !.pmm = free_page(@, p)])

\* the cleanup loops of allocate_region: pages 0..i-1 of the request
RECURSIVE region_unwind(_, _, _)
region_unwind(M, virt, i) ==
    IF i = 0 THEN M
    ELSE release_page(region_unwind(M, virt, i - 1),
                      virtual_address(virt + (i - 1) * PAGE_SIZE))

RECURSIVE region_loop(_, _, _, _, _)
region_loop(M, virt, i, pages, flags) ==
    IF i >= pages THEN [st |-> M, ret |-> virt]
    ELSE Let(allocate_page(M.pmm, zone_normal), LAMBDA r :
         IF r.ret = Zero
         THEN [st |-> region_unwind([M EXCEPT !.pmm = r.pmm], virt, i),
               ret |-> 0]
         ELSE Let(map([M EXCEPT !.pmm = r.pmm], kernel_id,
                      virtual_address(virt + i * PAGE_SIZE), r.ret, flags),
                  LAMBDA m :
                  IF ~m.ret
                  THEN [st |-> region_unwind(
                                  [m.st EXCEPT !.pmm = free_page(@, r.ret)],
                                  virt, i),
                        ret |-> 0]
                  ELSE region_loop(m.st, virt, i + 1, pages, flags)))

allocate_region(M, pages, flags) ==
    region_loop([M EXCEPT !.vmm.next_virt = @ + pages * PAGE_SIZE],
                M.vmm.next_virt, 0, pages, flags)

\* the loop body of free_region without pmm::free_page: a variant that
\* keeps the frame
unmap_page(M, v) ==
    IF get_physical(M, kernel_id, v) # Zero
    THEN unmap(M, kernel_id, v).st
    ELSE M

RECURSIVE free_region_keep_frames(_, _, _)
free_region_keep_frames(M, virt, pages) ==
    IF pages = 0 THEN M
    ELSE unmap_page(free_region_keep_frames(M, virt, pages - 1),
                    virtual_address(virt + (pages - 1) * PAGE_SIZE))

\* body of the loop of free_region for the page at v
free_region_page(M, v) ==
    Let(get_physical(M, kernel_id, v), LAMBDA p :
        IF p # Zero
        THEN [unmap(M, kernel_id, v).st EXCEPT !.pmm = free_page(@, p)]
        ELSE M)

RECURSIVE free_region(_, _, _)
free_region(M, virt, pages) ==
    IF pages = 0 THEN M
    ELSE free_region_page(free_region(M, virt, pages - 1),
                          virtual_address(virt + (pages - 1) * PAGE_SIZE))

(***************************************************************************)
(* Boot configurations and inputs of the frame-allocator operations        *)
(***************************************************************************)
\* kernel image at 1 MiB, 64 KiB long
KernelStart == PageAddr(256)
KernelEnd == PageAddr(272)

Region(base, length, type) ==
    [base |-> base, length |-> length, type |-> type, reserved |-> 0]

\* usable low memory from address 0, a reserved hole, usable memory from
\* 16 MiB and one usable frame above 4 GiB
MemoryMap ==
    << Region(Zero, PageAddr(2), 1),
       Region(PageAddr(2), PageAddr(1), 2),
       Region(PageAddr(DMA_LIMIT), PageAddr(NormalFrames), 1),
       Region(PageAddr(HIGH_BASE), PageAddr(1), 1) >>

\* the same with a usable region that starts and ends inside a frame
MemoryMapUnaligned ==
    << Region(U64(FALSE, DMA_LIMIT, 512), PageAddr(NormalFrames), 1),
       Region(PageAddr(HIGH_BASE), PageAddr(1), 1) >>

BootStates ==
    { pmm_init(pmm_boot, MemoryMap, KernelStart, KernelEnd),
      pmm_init(pmm_boot, MemoryMapUnaligned, KernelStart, KernelEnd),
      init_fallback(pmm_boot, KernelStart, KernelEnd,
                    PageAddr(DMA_LIMIT + NormalFrames)) }

\* addresses passed to free_page: the null address, the frames the boot
\* configurations manage and an address past the last zone
FreeAddrs ==
    {Zero, PageAddr(1), PageAddr(HIGH_BASE), PageAddr(4 * HIGH_BASE)}
        \cup {PageAddr(DMA_LIMIT + i) : i \in 0..(NormalFrames - 1)}

\* start addresses and counts passed to free_pages
FreeRuns ==
    {<<PageAddr(4 * HIGH_BASE), 1>>}
        \cup {<<PageAddr(DMA_LIMIT), c>> : c \in 0..MaxCount}

NoOp == [op |-> "init"]

\* layers that a specification does not use stay in their boot state
heap_boot == [init |-> FALSE]

(***************************************************************************)
(* Specification of the frame allocator                                    *)
(***************************************************************************)
InitPmm ==
    /\ pmm \in BootStates
    /\ vmm = vmm_boot
    /\ heap = heap_boot
    /\ last = NoOp
    /\ held = {}
    /\ regions = {}
    /\ live = {}

AllocatePage(zone) ==
    Let(allocate_page(pmm, zone), LAMBDA r :
        /\ pmm' = r.pmm
        /\ last' = [op |-> "allocate_page", zone |-> zone, ret |-> r.ret]
        /\ held' = IF r.ret # Zero THEN held \cup {r.ret} ELSE held
        /\ UNCHANGED <<vmm, heap, regions, live>>)

AllocatePages(count, zone) ==
    Let(allocate_pages(pmm, count, zone), LAMBDA r :
        /\ pmm' = r.pmm
        /\ last' = [op |-> "allocate_pages", zone |-> zone, count |-> count,
                    ret |-> r.ret]
        /\ held' = IF r.ret # Zero
                   THEN held \cup {Plus(r.ret, PageAddr(i)) :
                                      i \in 0..(count - 1)}
                   ELSE held
        /\ UNCHANGED <<vmm, heap, regions, live>>)

FreePage(addr) ==
    /\ pmm.stats.free_pages < MaxFreeStat
    /\ pmm' = free_page(pmm, addr)
    /\ last' = [op |-> "free_page", addr |-> addr]
    /\ held' = held \ {addr}
    /\ UNCHANGED <<vmm, heap, regions, live>>

FreePages(addr, count) ==
    /\ pmm.stats.free_pages + count <= MaxFreeStat
    /\ pmm' = free_pages(pmm, addr, count)
    /\ last' = [op |-> "free_pages", addr |-> addr, count |-> count]
    /\ held' = held \ {Plus(addr, PageAddr(i)) : i \in 0..(count - 1)}
    /\ UNCHANGED <<vmm, heap, regions, live>>

NextPmm ==
    \/ \E zone \in ZoneTypes : AllocatePage(zone)
    \/ \E zone \in ZoneTypes : \E count \in 0..MaxCount :
          AllocatePages(count, zone)
    \/ \E addr \in FreeAddrs : FreePage(addr)
    \/ \E run \in FreeRuns : FreePages(run[1], run[2])

SpecPmm == InitPmm /\ [][NextPmm]_vars

ZeroBits(z) == Cardinality(z.bitmap)

SumZoneFree(P) ==
    P.zones[zone_dma].free_pages + P.zones[zone_normal].free_pages
        + P.zones[zone_high].free_pages

\* C1: in every zone the free count equals the number of zero bits of the
\* inventory, after initialisation and after any sequence of allocate,
\* allocate_contiguous, free and free_contiguous calls (frees of free frames
\* and of frames outside the zone included).
C1_FreeCountIsZeroBits ==
    \A t \in ZoneTypes : pmm.zones[t].free_pages = ZeroBits(pmm.zones[t])

\* C1 witness: a free of a frame outside every zone has just happened while
\* the normal zone has free and used frames.
C1_Witness ==
    /\ last.op = "free_page"
    /\ last.addr = PageAddr(4 * HIGH_BASE)
    /\ pmm.zones[zone_normal].free_pages > 0
    /\ pmm.zones[zone_normal].free_pages < NormalFrames

\* frames an allocation call hands out: none when it returns the sentinel
Handed(l) ==
    IF l.op = "allocate_page" /\ l.ret # Zero THEN {l.ret}
    ELSE IF l.op = "allocate_pages" /\ l.ret # Zero
    THEN {Plus(l.ret, PageAddr(i)) : i \in 0..(l.count - 1)}
    ELSE {}

IsFree(P, addr) == ZonePage(addr) \in P.zones[ZoneOf(addr)].bitmap

\* C2: every frame allocate_page (or allocate_pages) hands out had its
\* inventory bit 0 immediately before the call and has it 1 after the call,
\* and is not held by an outstanding allocation, also when it comes from a
\* fallback zone.
C2_NoDoubleAllocation ==
    [][\A a \in Handed(last') :
          /\ IsFree(pmm, a)
          /\ ~IsFree(pmm', a)
          /\ a \notin held]_vars

\* C2 witness: allocate_page has just handed out a frame of a fallback zone
\* while another allocation is outstanding.
C2_Witness ==
    /\ last.op = "allocate_page"
    /\ last.ret # Zero
    /\ ZoneOf(last.ret) # last.zone
    /\ Cardinality(held) >= 2

\* C3 (as claimed): the global free-page statistic equals the sum of the
\* three zones' free counts after initialisation and after any sequence of
\* allocate, allocate_contiguous, free and free_contiguous calls.
C3_GlobalFreeIsSum ==
    pmm.stats.free_pages = SumZoneFree(pmm)

\* no frame changed state: the inventories and the free counts of all zones
\* and the global free statistic are as before the call
NothingTaken ==
    /\ \A t \in ZoneTypes :
          /\ pmm'.zones[t].bitmap = pmm.zones[t].bitmap
          /\ pmm'.zones[t].free_pages = pmm.zones[t].free_pages
    /\ pmm'.stats.free_pages = pmm.stats.free_pages

\* C12 (as claimed): allocate_page returns the sentinel 0 exactly when it
\* failed: a call returning 0 marked no frame used and left every zone's
\* inventory and free count and the global statistic unchanged, and a call
\* that marked a frame used returns a non-zero address.
C12_ZeroOnlyOnFailure ==
    [][last'.op = "allocate_page" =>
          /\ last'.ret = Zero => NothingTaken
          /\ (\E t \in ZoneTypes :
                 pmm'.zones[t].bitmap # pmm.zones[t].bitmap)
                => last'.ret # Zero]_vars

\* zones allocate_page may take a frame from, in the order it tries them:
\* the requested zone, then high, then dma, each once
TryOrder(zone) ==
    IF zone = zone_high THEN <<zone_high, zone_dma>>
    ELSE IF zone = zone_dma THEN <<zone_dma, zone_high>>
    ELSE <<zone_normal, zone_high, zone_dma>>

\* the zones of TryOrder(zone) that have a free frame in P
Suppliers(P, zone) ==
    {i \in 1..Len(TryOrder(zone)) : P.zones[TryOrder(zone)[i]].bitmap # {}}

\* exactly one frame of zone t was taken, its address was returned, and
\* free_page of that address puts every inventory and zone count back
TakenFrom(t) ==
    /\ \E f \in pmm.zones[t].bitmap :
          /\ pmm'.zones[t].bitmap = pmm.zones[t].bitmap \ {f}
          /\ last'.ret = ZoneAddr(t, f)
    /\ \A u \in ZoneTypes \ {t} : pmm'.zones[u].bitmap = pmm.zones[u].bitmap
    /\ \A u \in ZoneTypes :
          /\ free_page(pmm', last'.ret).zones[u].bitmap = pmm.zones[u].bitmap
          /\ free_page(pmm', last'.ret).zones[u].free_pages
                = pmm.zones[u].free_pages

\* C16 (as claimed): allocate_page takes the frame from the requested zone
\* if it has a free one, else from the high zone, else from the DMA zone,
\* never from the normal zone as a fallback; the address returned is that
\* of the frame taken, so that free_page of it clears the same frame's bit;
\* with no free frame in these zones the call fails and takes nothing.
C16_FallbackOrder ==
    [][last'.op = "allocate_page" =>
          IF Suppliers(pmm, last'.zone) = {}
          THEN last'.ret = Zero /\ NothingTaken
          ELSE TakenFrom(TryOrder(last'.zone)[
                             SetMin(Suppliers(pmm, last'.zone))])]_vars

\* C16 restricted to calls that do not take frame 0 of the DMA zone.
C16_FallbackOrderButFrameZero ==
    [][(/\ last'.op = "allocate_page"
        /\ 0 \in pmm.zones[zone_dma].bitmap
              => 0 \in pmm'.zones[zone_dma].bitmap) =>
          IF Suppliers(pmm, last'.zone) = {}
          THEN last'.ret = Zero /\ NothingTaken
          ELSE TakenFrom(TryOrder(last'.zone)[
                             SetMin(Suppliers(pmm, last'.zone))])]_vars

\* first pages of the runs of n consecutive free pages of zone z
Runs(z, n) ==
    {s \in z.bitmap : \A i \in 0..(n - 1) : s + i \in z.bitmap}

\* exactly the n pages from page s of zone t were taken and the address of
\* the first was returned
RunTaken(t, s, n) ==
    /\ last'.ret = ZoneAddr(t, s)
    /\ pmm'.zones[t].bitmap = pmm.zones[t].bitmap \ (s..(s + n - 1))
    /\ pmm'.zones[t].free_pages = pmm.zones[t].free_pages - n
    /\ pmm'.stats.free_pages = pmm.stats.free_pages - n
    /\ \A u \in ZoneTypes \ {t} :
          /\ pmm'.zones[u].bitmap = pmm.zones[u].bitmap
          /\ pmm'.zones[u].free_pages = pmm.zones[u].free_pages

\* C17: allocate_pages(n, zone) with n >= 2 returns the first frame of the
\* lowest-numbered run of n consecutive free frames of the requested zone
\* and marks exactly those n frames used, the global and the zone free
\* count dropping by n; without such a run it returns failure with all
\* inventories and counts unchanged, whatever the other zones hold; n = 0
\* returns failure.
C17_LowestRun ==
    [][(last'.op = "allocate_pages" /\ last'.count # 1) =>
          IF last'.count = 0 \/ Runs(pmm.zones[last'.zone], last'.count) = {}
          THEN last'.ret = Zero /\ NothingTaken
          ELSE RunTaken(last'.zone,
                        SetMin(Runs(pmm.zones[last'.zone], last'.count)),
                        last'.count)]_vars

\* C17 witness: allocate_pages(2, normal) has just returned the run at
\* frames 2 and 3 of the zone, passing over the free frame 0 that has a
\* used neighbour.
C17_Witness ==
    /\ last.op = "allocate_pages"
    /\ last.count = 2
    /\ last.ret = PageAddr(DMA_LIMIT + 2)
    /\ pmm.zones[zone_normal].bitmap = {0}

\* C18: free_page of a non-null address whose frame is already free
\* increments the global free count once more, there being no guard: the
\* count get_stats reports goes up by one while the inventories and the
\* zone counts stay as they are. Hence after allocate_page returned a,
\* free_page(a) and free_page(a) again, the reported count is one higher
\* than before the allocation.
C18_DoubleFreeCounts ==
    [][(/\ last'.op = "free_page"
        /\ last'.addr # Zero
        /\ IsFree(pmm, last'.addr)) =>
          /\ get_stats(pmm').free_pages = get_stats(pmm).free_pages + 1
          /\ pmm'.zones = pmm.zones]_vars

\* C18 witness: free_page has just been called on the first frame of the
\* normal zone while every frame of the zone was free and none was held:
\* the reported count is one above the number of free frames.
C18_Witness ==
    /\ last.op = "free_page"
    /\ last.addr = PageAddr(DMA_LIMIT)
    /\ held = {}
    /\ pmm.zones[zone_normal].bitmap = 0..(NormalFrames - 1)
    /\ pmm.zones[zone_dma].bitmap = {}
    /\ get_stats(pmm).free_pages = SumZoneFree(pmm) + 1

(***************************************************************************)
(* Specification of map / unmap on the kernel address space                *)
(***************************************************************************)
Mach == [pmm |-> pmm, vmm |-> vmm]

\* usable low memory from address 0, usable memory from 16 MiB and one
\* usable frame above 4 GiB
MemoryMapVmm ==
    << Region(Zero, PageAddr(2), 1),
       Region(PageAddr(DMA_LIMIT), PageAddr(VmmFrames), 1),
       Region(PageAddr(HIGH_BASE), PageAddr(1), 1) >>

\* machine states after pmm initialisation and vmm::init
VmmBootStates ==
    { vmm_init([pmm |-> P, vmm |-> vmm_boot], KernelMapPages) :
        P \in { init_fallback(pmm_boot, KernelStart, KernelEnd,
                              PageAddr(DMA_LIMIT + 6)),
                init_fallback(pmm_boot, KernelStart, KernelEnd,
                              PageAddr(DMA_LIMIT + VmmFrames)),
                pmm_init(pmm_boot, MemoryMapVmm, KernelStart, KernelEnd) } }

\* virtual addresses passed to map, unmap and get_physical: two pages of one
\* page table in the lower half (one address unaligned) and the first page
\* of the kernel mapping
MapVAs ==
    { VA(0, 0, 0, 0, 0, 0), VA(0, 0, 0, 0, 1, 4095), KernelVA(0) }

MapPhys == { PageAddr(7), PageAddr(DMA_LIMIT + 64) }

MapFlags == { writable, global, Or(writable, no_execute) }

ProbeOffsets == {0, 1, 4095}

SamePage(a, b) == [a EXCEPT !.offset = 0] = [b EXCEPT !.offset = 0]

\* every byte address probed: the pages of MapVAs and the page after each
ProbeVAs ==
    { [v EXCEPT !.offset = o] : v \in MapVAs, o \in ProbeOffsets }
        \cup { [v EXCEPT !.offset = o, !.pt_index = v.pt_index + 2] :
                 v \in MapVAs, o \in ProbeOffsets }

InitMap ==
    /\ \E M \in VmmBootStates : pmm = M.pmm /\ vmm = M.vmm
    /\ heap = heap_boot
    /\ last = NoOp
    /\ held = {}
    /\ regions = {}
    /\ live = {}

Map(va, phys, flags) ==
    /\ vmm.kernel_space.mapped_pages < MaxMapped
    /\ Let(map(Mach, kernel_id, va, phys, flags), LAMBDA r :
           /\ pmm' = r.st.pmm
           /\ vmm' = r.st.vmm
           /\ last' = [op |-> "map", va |-> va, phys |-> phys,
                       flags |-> flags, ret |-> r.ret])
    /\ UNCHANGED <<heap, held, regions, live>>

Unmap(va) ==
    /\ Let(unmap(Mach, kernel_id, va), LAMBDA r :
           /\ pmm' = r.st.pmm
           /\ vmm' = r.st.vmm
           /\ last' = [op |-> "unmap", va |-> va, ret |-> r.ret])
    /\ UNCHANGED <<heap, held, regions, live>>

NextMap ==
    \/ \E va \in MapVAs : \E phys \in MapPhys : \E flags \in MapFlags :
          Map(va, phys, flags)
    \/ \E va \in MapVAs : Unmap(va)

SpecMap == InitMap /\ [][NextMap]_vars

\* C4 (as claimed): when map(v, p, f) returns true, get_physical(v) called
\* next returns exactly p | (v & 0xFFF), for every flag set f, no_execute
\* and global included.
C4_MapThenGetPhysical ==
    (last.op = "map" /\ last.ret)
        => get_physical(Mach, kernel_id, last.va)
             = Or(last.phys, U64(FALSE, 0, last.va.offset))

\* C5: after unmap(v), get_physical returns 0 for every address of v's page
\* until that page is mapped again, and the unmap leaves get_physical of
\* every address of every other page as it was.
C5_UnmapThenGetPhysical ==
    [][/\ last'.op = "unmap" =>
            \A w \in ProbeVAs :
                IF SamePage(w, last'.va)
                THEN get_physical(Mach', kernel_id, w) = Zero
                ELSE get_physical(Mach', kernel_id, w)
                        = get_physical(Mach, kernel_id, w)
       /\ \A w \in ProbeVAs :
            (/\ get_physical(Mach, kernel_id, w) = Zero
             /\ ~(last'.op = "map" /\ SamePage(w, last'.va)))
                => get_physical(Mach', kernel_id, w) = Zero]_vars

\* C5 witness: unmap has just returned true for a page while another page
\* of the same page table is still mapped.
C5_Witness ==
    /\ last.op = "unmap"
    /\ last.ret
    /\ \E w \in MapVAs :
          /\ ~SamePage(w, last.va)
          /\ w.pml4_index = last.va.pml4_index
          /\ get_physical(Mach, kernel_id, w) # Zero

(***************************************************************************)
(* Specification of map / unmap with few free frames                       *)
(***************************************************************************)
\* frames vmm::init takes: the PML4 and the three tables of the kernel
\* mapping
KernelTables == 4

\* usable low memory from address 0 and one frame more than vmm::init
\* takes at 16 MiB
MemoryMapScarce ==
    << Region(Zero, PageAddr(2), 1),
       Region(PageAddr(DMA_LIMIT), PageAddr(KernelTables + 1), 1) >>

\* machine states after pmm initialisation and vmm::init in which 0 to
\* ScarceFrames frames are left for the tables of later map calls
ScarceBootStates ==
    { vmm_init([pmm |-> P, vmm |-> vmm_boot], KernelMapPages) :
        P \in { init_fallback(pmm_boot, KernelStart, KernelEnd,
                              PageAddr(DMA_LIMIT + KernelTables + j)) :
                    j \in 0..ScarceFrames }
                \cup { pmm_init(pmm_boot, MemoryMapScarce,
                                KernelStart, KernelEnd) } }

InitMapScarce ==
    /\ \E M \in ScarceBootStates : pmm = M.pmm /\ vmm = M.vmm
    /\ heap = heap_boot
    /\ last = NoOp
    /\ held = {}
    /\ regions = {}
    /\ live = {}

SpecMapScarce == InitMapScarce /\ [][NextMap]_vars

\* tables that the step has created
TablesCreated == (DOMAIN vmm'.mem) \ (DOMAIN vmm.mem)

\* after the step, table t is the target of a present entry at one of the
\* indices of va
LinkedFor(t, va) ==
    \E parent \in DOMAIN vmm'.mem :
        \E i \in {va.pml4_index, va.pdpt_index, va.pd_index} :
            /\ Has(Entry(vmm'.mem, parent, i), present)
            /\ MaskPage(Entry(vmm'.mem, parent, i)) = t

\* C19 (as claimed): a map that fails for want of a frame for an
\* intermediate table returns false, leaves get_physical(v) = 0 and the
\* mapped-page counter unchanged, keeps the tables created earlier in the
\* walk linked in the tree, and lowers the frame allocator's free count by
\* exactly the number of tables created.
C19_FailedMapKeepsTables ==
    [][(last'.op = "map" /\ ~last'.ret) =>
          /\ get_physical(Mach', kernel_id, last'.va) = Zero
          /\ vmm'.kernel_space.mapped_pages = vmm.kernel_space.mapped_pages
          /\ \A t \in TablesCreated : LinkedFor(t, last'.va)
          /\ get_stats(pmm').free_pages
                = get_stats(pmm).free_pages - Cardinality(TablesCreated)]_vars

\* C19 restricted to calls that do not take frame 0 of the DMA zone.
C19_FailedMapButFrameZero ==
    [][(/\ last'.op = "map" /\ ~last'.ret
        /\ 0 \in pmm.zones[zone_dma].bitmap
              => 0 \in pmm'.zones[zone_dma].bitmap) =>
          /\ get_physical(Mach', kernel_id, last'.va) = Zero
          /\ vmm'.kernel_space.mapped_pages = vmm.kernel_space.mapped_pages
          /\ \A t \in TablesCreated : LinkedFor(t, last'.va)
          /\ get_stats(pmm').free_pages
                = get_stats(pmm).free_pages - Cardinality(TablesCreated)]_vars

\* the tables of the kernel space on the walk for va, level by level, as
\* far as the entries are present: <<pml4>>, <<pml4, pdpt>>, ...
WalkTables(va) ==
    Let(vmm.kernel_space.pml4, LAMBDA t4 :
    Let(Entry(vmm.mem, t4, va.pml4_index), LAMBDA e4 :
        IF ~Has(e4, present) THEN <<t4>>
        ELSE Let(Entry(vmm.mem, MaskPage(e4), va.pdpt_index), LAMBDA e3 :
             IF ~Has(e3, present) THEN <<t4, MaskPage(e4)>>
             ELSE Let(Entry(vmm.mem, MaskPage(e3), va.pd_index), LAMBDA e2 :
                  IF ~Has(e2, present) THEN <<t4, MaskPage(e4), MaskPage(e3)>>
                  ELSE <<t4, MaskPage(e4), MaskPage(e3), MaskPage(e2)>>))))

\* all four levels are there and the leaf entry for va is present
LeafPresent(va) ==
    /\ Len(WalkTables(va)) = 4
    /\ Has(Entry(vmm.mem, WalkTables(va)[4], va.pt_index), present)

\* C20: unmap(v) returns true exactly when the leaf entry for v was present
\* before the call, and then clears that entry, lowers the mapped-page
\* counter by one and changes nothing else; when a level of the walk or the
\* leaf is absent it returns false and changes no table entry, not the
\* counter and no frame-allocator state; in neither case is a frame or a
\* table given back.
C20_UnmapReturn ==
    [][last'.op = "unmap" =>
          /\ last'.ret = LeafPresent(last'.va)
          /\ pmm' = pmm
          /\ DOMAIN vmm'.mem = DOMAIN vmm.mem
          /\ IF last'.ret
             THEN /\ vmm'.mem =
                       SetEntry(vmm.mem, WalkTables(last'.va)[4],
                                last'.va.pt_index, Zero)
                  /\ vmm'.kernel_space.mapped_pages
                       = vmm.kernel_space.mapped_pages - 1
                  /\ [vmm' EXCEPT !.mem = vmm.mem,
                                  !.kernel_space.mapped_pages =
                                      vmm.kernel_space.mapped_pages] = vmm
             ELSE vmm' = vmm]_vars

\* C20 witness: unmap has just returned false for an address whose walk
\* ends at an absent second-level entry, the levels above being present
\* (tables left by a failed map).
C20_Witness ==
    /\ last.op = "unmap"
    /\ ~last.ret
    /\ Len(WalkTables(last.va)) = 3

(***************************************************************************)
(* Specification of allocate_region / free_region                          *)
(***************************************************************************)
DefaultFlags == Or(present, writable)

RegionFlags == { DefaultFlags, Or(DefaultFlags, no_execute) }

FreeCounts(P) ==
    [zones |-> [t \in ZoneTypes |-> P.zones[t].free_pages],
     stats |-> P.stats.free_pages]

\* page addresses of a request of `pages` pages at `virt`
RegionVAs(virt, pages) ==
    { virtual_address(virt + i * PAGE_SIZE) : i \in 0..(pages - 1) }

InitRegion ==
    /\ \E M \in VmmBootStates : pmm = M.pmm /\ vmm = M.vmm
    /\ heap = heap_boot
    /\ last = NoOp
    /\ held = {}
    /\ regions = {}
    /\ live = {}

AllocateRegion(pages, flags) ==
    /\ vmm.next_virt + pages * PAGE_SIZE
          <= REGION_BASE + MaxVirtPages * PAGE_SIZE
    /\ Let(allocate_region(Mach, pages, flags), LAMBDA r :
           /\ pmm' = r.st.pmm
           /\ vmm' = r.st.vmm
           /\ last' = [op |-> "allocate_region", pages |-> pages,
                       flags |-> flags, ret |-> r.ret,
                       virt |-> vmm.next_virt,
                       free_before |-> FreeCounts(pmm),
                       tables_before |-> DOMAIN vmm.mem]
           /\ regions' = IF r.ret # 0 THEN regions \cup {<<r.ret, pages>>}
                         ELSE regions)
    /\ UNCHANGED <<heap, held, live>>

FreeRegion(addr, pages) ==
    /\ <<addr, pages>> \in regions
    /\ Let(free_region(Mach, addr, pages), LAMBDA N :
           /\ pmm' = N.pmm
           /\ vmm' = N.vmm)
    /\ last' = [op |-> "free_region", addr |-> addr, pages |-> pages,
                follows_allocate |->
                    /\ last.op = "allocate_region"
                    /\ last.flags = DefaultFlags
                    /\ last.ret = addr
                    /\ last.pages = pages,
                created |->
                    IF last.op = "allocate_region"
                    THEN Cardinality((DOMAIN vmm.mem) \ last.tables_before)
                    ELSE 0]
    /\ regions' = regions \ {<<addr, pages>>}
    /\ UNCHANGED <<heap, held, live>>

NextRegion ==
    \/ \E pages \in 0..MaxRegionPages : \E flags \in RegionFlags :
          AllocateRegion(pages, flags)
    \/ \E r \in regions : FreeRegion(r[1], r[2])

SpecRegion == InitRegion /\ [][NextRegion]_vars

\* free_region directly follows the successful allocate_region(n) whose
\* result and page count it is given
FreesLastRegion ==
    /\ last.op = "allocate_region"
    /\ last.flags = DefaultFlags
    /\ last.ret # 0
    /\ last'.op = "free_region"
    /\ last'.addr = last.ret
    /\ last'.pages = last.pages

\* number of frames of zone t among the table frames in T
TablesIn(T, t) == Cardinality({a \in T : ZoneOf(a) = t})

\* C6 (as claimed): a successful allocate_region(n) followed by free_region
\* of the returned address with the same n restores every zone's free count
\* and the global free count to the values before the allocate_region call.
C6_RegionRoundTrip ==
    [][FreesLastRegion => FreeCounts(pmm') = last.free_before]_vars

\* C6 (amended): after that pair of calls every free count is its value
\* before the allocate_region call minus the frames of the intermediate
\* tables the call created, which stay allocated.
C6_RegionRoundTripKeepsTables ==
    [][FreesLastRegion =>
        LET created == (DOMAIN vmm'.mem) \ last.tables_before
        IN /\ \A t \in ZoneTypes :
                pmm'.zones[t].free_pages
                    = last.free_before.zones[t] - TablesIn(created, t)
           /\ pmm'.stats.free_pages
                = last.free_before.stats - Cardinality(created)]_vars

\* C6 witness: free_region has just released the pages of the directly
\* preceding allocate_region call, which had created intermediate tables.
C6_Witness ==
    /\ last.op = "free_region"
    /\ last.follows_allocate
    /\ last.pages >= 1
    /\ last.created >= 1

\* C7 (as claimed, for a request that fails without creating a table):
\* when allocate_region(pages) fails it returns 0, every free count equals
\* its value before the call and get_physical returns 0 for every page
\* address of the attempted range.
C7_FailedRegionRollsBack ==
    [][(/\ last'.op = "allocate_region"
        /\ last'.flags = DefaultFlags
        /\ last'.ret = 0
        /\ DOMAIN vmm'.mem = DOMAIN vmm.mem)
        => /\ FreeCounts(pmm') = FreeCounts(pmm)
           /\ \A v \in RegionVAs(last'.virt, last'.pages) :
                 get_physical(Mach', kernel_id, v) = Zero]_vars

(***************************************************************************)
(* Kernel heap (hft.heap): slab allocators and large allocations           *)
(*                                                                         *)
(* Pointers are virtual addresses, 0 is nullptr.  The memory the heap      *)
(* writes is kept in three maps keyed by address: slab_mem (slab_header    *)
(* at the start of a slab page), size_mem (the size_t in front of a slab   *)
(* object) and large_mem (large_allocation at the start of a region).      *)
(* free_bitmap is the set of object indexes whose bit is 1 (free).         *)
(***************************************************************************)
\* sizeof(slab_header): next, size, free_count and eight bitmap words
SLAB_HEADER_SIZE == 88
\* sizeof(large_allocation): next, prev, size, pages
LARGE_HEADER_SIZE == 32
\* sizeof(size_t), the per-object header kmalloc writes
SIZE_T == 8
\* uint64_t free_bitmap[8]
BITMAP_BITS == 512

slab_sizes == <<16, 32, 64, 128, 256, 512, 1024, 2048, 4096>>

num_slabs == Len(slab_sizes)

NoMem == [a \in {} |-> 0]

Sys == [pmm |-> pmm, vmm |-> vmm, heap |-> heap]

MachOf(S) == [pmm |-> S.pmm, vmm |-> S.vmm]

WithMach(S, M) == [S EXCEPT !.pmm = M.pmm, !.vmm = M.vmm]

PageBase(addr) == addr - (addr % PAGE_SIZE)

slab_init(size) ==
    LET n == (PAGE_SIZE - SLAB_HEADER_SIZE) \div size
    IN [object_size |-> size,
        objects_per_slab |-> IF n > BITMAP_BITS THEN BITMAP_BITS ELSE n,
        partial_slabs |-> 0,
        full_slabs |-> 0,
        empty_slabs |-> 0,
        total_objects |-> 0,
        free_objects |-> 0]

heap_init ==
    [slabs |-> [i \in 1..num_slabs |-> slab_init(slab_sizes[i])],
     large_allocations |-> 0,
     heap_used |-> 0,
     heap_allocated |-> 0,
     slab_mem |-> NoMem,
     size_mem |-> NoMem,
     large_mem |-> NoMem]

\* the slab leaves the list it heads, if any, and becomes the head of `list`
move_slab_to_list(H, c, slab, list) ==
    LET s == H.slabs[c]
        nxt == H.slab_mem[slab].next
        u == IF slab = s.partial_slabs THEN [s EXCEPT !.partial_slabs = nxt]
             ELSE IF slab = s.full_slabs THEN [s EXCEPT !.full_slabs = nxt]
             ELSE IF slab = s.empty_slabs THEN [s EXCEPT !.empty_slabs = nxt]
             ELSE s
    IN [H EXCEPT !.slab_mem[slab].next = u[list],
                 !.slabs[c] = [u EXCEPT ![list] = slab]]

\* [heap, ret]: the lowest free object of the slab, or nullptr
allocate_from_slab(H, c, slab) ==
    IF H.slab_mem[slab].free_bitmap = {} THEN [heap |-> H, ret |-> 0]
    ELSE Let(SetMin(H.slab_mem[slab].free_bitmap), LAMBDA idx :
         Let([H EXCEPT !.slab_mem[slab].free_bitmap = @ \ {idx},
                       !.slab_mem[slab].free_count = @ - 1,
                       !.slabs[c].free_objects = @ - 1], LAMBDA H1 :
             [heap |-> IF H1.slab_mem[slab].free_count = 0
                       THEN move_slab_to_list(H1, c, slab, "full_slabs")
                       ELSE H1,
              ret |-> slab + SLAB_HEADER_SIZE
                        + idx * H.slabs[c].object_size]))

\* the header create_slab writes for class c
fresh_slab(H, c) ==
    [next |-> 0,
     size |-> H.slabs[c].object_size,
     free_count |-> H.slabs[c].objects_per_slab,
     free_bitmap |-> 0..(H.slabs[c].objects_per_slab - 1)]

\* [st, ret]: a one-page region holding a fresh slab header, or nullptr
create_slab(S, c) ==
    Let(allocate_region(MachOf(S), 1, DefaultFlags), LAMBDA r :
        IF r.ret = 0 THEN [st |-> WithMach(S, r.st), ret |-> 0]
        ELSE [st |-> [WithMach(S, r.st) EXCEPT
                         !.heap.slab_mem = (r.ret :> fresh_slab(S.heap, c)) @@ @,
                         !.heap.slabs[c].total_objects =
                             @ + S.heap.slabs[c].objects_per_slab,
                         !.heap.slabs[c].free_objects =
                             @ + S.heap.slabs[c].objects_per_slab],
              ret |-> r.ret])

\* slab becomes the head of the partial list, then gives an object
push_partial_and_allocate(S, c, slab) ==
    Let(allocate_from_slab(
            [S.heap EXCEPT
                !.slab_mem[slab].next = S.heap.slabs[c].partial_slabs,
                !.slabs[c].partial_slabs = slab], c, slab), LAMBDA a :
        [st |-> [S EXCEPT !.heap = a.heap], ret |-> a.ret])

\* slab_allocator::allocate of class c: [st, ret]
slab_allocate(S, c) ==
    IF S.heap.slabs[c].partial_slabs # 0
    THEN Let(allocate_from_slab(S.heap, c, S.heap.slabs[c].partial_slabs),
             LAMBDA a : [st |-> [S EXCEPT !.heap = a.heap], ret |-> a.ret])
    ELSE IF S.heap.slabs[c].empty_slabs # 0
    THEN Let(S.heap.slabs[c].empty_slabs, LAMBDA slab :
             push_partial_and_allocate(
                 [S EXCEPT !.heap.slabs[c].empty_slabs =
                               S.heap.slab_mem[slab].next], c, slab))
    ELSE Let(create_slab(S, c), LAMBDA cs :
             IF cs.ret = 0 THEN [st |-> cs.st, ret |-> 0]
             ELSE push_partial_and_allocate(cs.st, c, cs.ret))

\* slab_allocator::free of class c for a non-null pointer
slab_free(H, c, ptr) ==
    Let(PageBase(ptr), LAMBDA slab :
    Let((ptr - slab - SLAB_HEADER_SIZE) \div H.slabs[c].object_size,
        LAMBDA obj_idx :
    Let([H EXCEPT !.slab_mem[slab].free_bitmap = @ \cup {obj_idx},
                  !.slab_mem[slab].free_count = @ + 1,
                  !.slabs[c].free_objects = @ + 1], LAMBDA H1 :
        IF H1.slab_mem[slab].free_count = H.slabs[c].objects_per_slab
        THEN move_slab_to_list(H1, c, slab, "empty_slabs")
        ELSE IF H1.slab_mem[slab].free_count = 1
        THEN move_slab_to_list(H1, c, slab, "partial_slabs")
        ELSE H1)))

\* index of the first class of at least `size` bytes, 0 for nullptr
find_slab(size) ==
    LET fit == {i \in 1..num_slabs : slab_sizes[i] >= size}
    IN IF fit = {} THEN 0 ELSE SetMin(fit)

\* the branch of kmalloc for alloc_size <= 4096
kmalloc_slab(S, size) ==
    IF find_slab(size + SIZE_T) = 0 THEN [st |-> S, ret |-> 0]
    ELSE Let(slab_allocate(S, find_slab(size + SIZE_T)), LAMBDA a :
             IF a.ret = 0 THEN [st |-> a.st, ret |-> 0]
             ELSE [st |-> [a.st EXCEPT
                              !.heap.size_mem = (a.ret :> size) @@ @,
                              !.heap.heap_used = @ + size],
                   ret |-> a.ret + SIZE_T])

\* the large_allocation header at `header` becomes the head of the list
link_large(H, header, size, pages) ==
    [H EXCEPT
        !.large_mem =
            (header :> [next |-> H.large_allocations, prev |-> 0,
                        size |-> size, pages |-> pages])
                @@ (IF H.large_allocations # 0
                    THEN [@ EXCEPT ![H.large_allocations].prev = header]
                    ELSE @),
        !.large_allocations = header,
        !.heap_used = @ + size,
        !.heap_allocated = @ + pages * PAGE_SIZE]

\* the branch of kmalloc for alloc_size > 4096
kmalloc_large(S, size) ==
    Let((size + SIZE_T + PAGE_SIZE - 1) \div PAGE_SIZE, LAMBDA pages :
    Let(allocate_region(MachOf(S), pages, DefaultFlags), LAMBDA r :
        IF r.ret = 0 THEN [st |-> WithMach(S, r.st), ret |-> 0]
        ELSE [st |-> [WithMach(S, r.st) EXCEPT
                         !.heap = link_large(@, r.ret, size, pages)],
              ret |-> r.ret + LARGE_HEADER_SIZE]))

\* kmalloc choosing its branch by size alone, without the size_t header
kmalloc_by_size(S, size) ==
    IF size = 0 THEN [st |-> S, ret |-> 0]
    ELSE IF size <= PAGE_SIZE THEN kmalloc_slab(S, size)
    ELSE kmalloc_large(S, size)

kmalloc(S, size) ==
    IF size = 0 THEN [st |-> S, ret |-> 0]
    ELSE IF size + SIZE_T <= PAGE_SIZE THEN kmalloc_slab(S, size)
    ELSE kmalloc_large(S, size)

\* the walk of the large-allocation list from `alloc` finds `header`
RECURSIVE in_large_list(_, _, _, _)
in_large_list(H, alloc, header, fuel) ==
    IF alloc = 0 \/ fuel = 0 THEN FALSE
    ELSE IF alloc = header THEN TRUE
    ELSE in_large_list(H, H.large_mem[alloc].next, header, fuel - 1)

\* unlink_large without the store to the successor's prev: a variant that
\* leaves a backward link to the freed header
unlink_large_keep_prev(H, header) ==
    Let(H.large_mem[header], LAMBDA hdr :
    Let(IF hdr.prev # 0
        THEN [H.large_mem EXCEPT ![hdr.prev].next = hdr.next]
        ELSE H.large_mem, LAMBDA m1 :
        [H EXCEPT
            !.large_allocations = IF hdr.prev # 0 THEN @ ELSE hdr.next,
            !.large_mem = [a \in (DOMAIN m1) \ {header} |-> m1[a]],
            !.heap_used = @ - hdr.size,
            !.heap_allocated = @ - hdr.pages * PAGE_SIZE]))

\* the header leaves the list and the counters, as kfree does before
\* free_region
unlink_large(H, header) ==
    Let(H.large_mem[header], LAMBDA hdr :
    Let(IF hdr.prev # 0
        THEN [H.large_mem EXCEPT ![hdr.prev].next = hdr.next]
        ELSE H.large_mem, LAMBDA m1 :
    Let(IF hdr.next # 0
        THEN [m1 EXCEPT ![hdr.next].prev = hdr.prev]
        ELSE m1, LAMBDA m2 :
        [H EXCEPT
            !.large_allocations = IF hdr.prev # 0 THEN @ ELSE hdr.next,
            !.large_mem = [a \in (DOMAIN m2) \ {header} |-> m2[a]],
            !.heap_used = @ - hdr.size,
            !.heap_allocated = @ - hdr.pages * PAGE_SIZE])))

\* the branch of kfree that unlinks and releases a large allocation
kfree_large(S, header) ==
    [WithMach(S, free_region(MachOf(S), header,
                             S.heap.large_mem[header].pages))
        EXCEPT !.heap = unlink_large(@, header)]

\* kfree_slab_sized without the subtraction from heap_used: a variant
\* that leaves the bytes of freed slab objects in the counter
kfree_slab_sized_keep_used(H, real_ptr, size) ==
    IF find_slab(size + SIZE_T) # 0
    THEN slab_free(H, find_slab(size + SIZE_T), real_ptr)
    ELSE H

\* the slab branch of kfree once `size` has been read from real_ptr;
\* heap_used is unsigned in the code, a negative value here stands for the
\* wrapped one
kfree_slab_sized(H, real_ptr, size) ==
    Let([H EXCEPT !.heap_used = @ - size], LAMBDA H1 :
        IF find_slab(size + SIZE_T) # 0
        THEN slab_free(H1, find_slab(size + SIZE_T), real_ptr)
        ELSE H1)

\* the slab branch of kfree
kfree_slab(H, real_ptr) ==
    kfree_slab_sized(H, real_ptr, H.size_mem[real_ptr])

\* kfree of a pointer kmalloc returned and that has not been freed since
kfree(S, ptr) ==
    IF ptr = 0 THEN S
    ELSE IF /\ ptr - PageBase(ptr) = LARGE_HEADER_SIZE
            /\ in_large_list(S.heap, S.heap.large_allocations,
                             ptr - LARGE_HEADER_SIZE,
                             Cardinality(DOMAIN S.heap.large_mem))
    THEN kfree_large(S, ptr - LARGE_HEADER_SIZE)
    ELSE [S EXCEPT !.heap = kfree_slab(@, ptr - SIZE_T)]

\* kfree of a pointer into a slab page that is not the data pointer of an
\* object: the pointer is not at offset sizeof(large_allocation), so kfree
\* goes to its slab branch with whatever the 8 bytes before it hold
kfree_foreign(S, ptr, size) ==
    IF ptr = 0 THEN S
    ELSE IF /\ ptr - PageBase(ptr) = LARGE_HEADER_SIZE
            /\ in_large_list(S.heap, S.heap.large_allocations,
                             ptr - LARGE_HEADER_SIZE,
                             Cardinality(DOMAIN S.heap.large_mem))
    THEN kfree_large(S, ptr - LARGE_HEADER_SIZE)
    ELSE [S EXCEPT !.heap = kfree_slab_sized(@, ptr - SIZE_T, size)]

(***************************************************************************)
(* Specification of kmalloc / kfree                                        *)
(***************************************************************************)
\* machine states after pmm initialisation, vmm::init and heap::init
HeapBootStates ==
    { vmm_init([pmm |-> P, vmm |-> vmm_boot], KernelMapPages) :
        P \in { init_fallback(pmm_boot, KernelStart, KernelEnd,
                              PageAddr(DMA_LIMIT + HeapFrames - 1)),
                init_fallback(pmm_boot, KernelStart, KernelEnd,
                              PageAddr(DMA_LIMIT + HeapFrames)) } }

\* request sizes: none, the smallest class, a one-object class, and the
\* sizes around the largest class and around two pages
KmallocSizes == {0, 8, 2040, 4088, 4089, 4096, 4097, 8184}

InitHeap ==
    /\ \E M \in HeapBootStates : pmm = M.pmm /\ vmm = M.vmm
    /\ heap = heap_init
    /\ last = NoOp
    /\ held = {}
    /\ regions = {}
    /\ live = {}

Kmalloc(size) ==
    /\ Cardinality(live) < MaxLive
    /\ Let(kmalloc(Sys, size), LAMBDA r :
           /\ r.st.vmm.next_virt <= REGION_BASE + MaxHeapPages * PAGE_SIZE
           /\ pmm' = r.st.pmm
           /\ vmm' = r.st.vmm
           /\ heap' = r.st.heap
           /\ last' = [op |-> "kmalloc", size |-> size, ret |-> r.ret]
           /\ live' = IF r.ret # 0
                      THEN live \cup {[ptr |-> r.ret, size |-> size]}
                      ELSE live)
    /\ UNCHANGED <<held, regions>>

Kfree(l) ==
    /\ l \in live
    /\ Let(kfree(Sys, l.ptr), LAMBDA S :
           /\ pmm' = S.pmm
           /\ vmm' = S.vmm
           /\ heap' = S.heap)
    /\ last' = [op |-> "kfree", ptr |-> l.ptr]
    /\ live' = live \ {l}
    /\ UNCHANGED <<held, regions>>

NextHeap ==
    \/ \E size \in KmallocSizes : Kmalloc(size)
    \/ \E l \in live : Kfree(l)

SpecHeap == InitHeap /\ [][NextHeap]_vars

\* the byte at `addr` is mapped in the kernel address space
IsMapped(addr) ==
    get_physical(Mach, kernel_id, virtual_address(addr)) # Zero

\* C8 (as claimed): when kmalloc(size) returns non-null, the size bytes at
\* the returned pointer lie inside the storage reserved for the allocation:
\* on the page-backed path after the large-allocation header and inside the
\* pages mapped for the request, on the slab path after the per-object
\* header and inside the object's slot of the slab page.
C8_SizeBytesInsideStorage ==
    (last.op = "kmalloc" /\ last.ret # 0) =>
        LET p == last.ret
            page == PageBase(p)
        IN IF page \in DOMAIN heap.large_mem
           THEN /\ p >= page + LARGE_HEADER_SIZE
                /\ p + last.size
                     <= page + heap.large_mem[page].pages * PAGE_SIZE
                /\ IsMapped(p + last.size - 1)
           ELSE /\ page \in DOMAIN heap.slab_mem
                /\ LET object_size == heap.slab_mem[page].size
                       slot == p - SIZE_T
                   IN /\ slot >= page + SLAB_HEADER_SIZE
                      /\ (slot - page - SLAB_HEADER_SIZE) % object_size = 0
                      /\ p + last.size <= slot + object_size
                      /\ slot + object_size <= page + PAGE_SIZE

Disjoint(a, b) == a[2] <= b[1] \/ b[2] <= a[1]

LiveRange(l) == <<l.ptr, l.ptr + l.size>>

\* byte ranges of slab headers (bitmaps included), of the size headers of
\* live slab objects and of large-allocation headers
Metadata ==
    { <<a, a + SLAB_HEADER_SIZE>> : a \in DOMAIN heap.slab_mem }
        \cup { <<a, a + LARGE_HEADER_SIZE>> : a \in DOMAIN heap.large_mem }
        \cup { <<l.ptr - SIZE_T, l.ptr>> :
                 l \in {k \in live : PageBase(k.ptr) \in DOMAIN heap.slab_mem} }

\* C9 (as claimed): the byte ranges [ptr, ptr + size) of the live
\* allocations are pairwise disjoint and disjoint from the allocator's
\* metadata.
C9_LiveRangesDisjoint ==
    /\ \A k \in live : \A l \in live :
          k # l => Disjoint(LiveRange(k), LiveRange(l))
    /\ \A l \in live : \A m \in Metadata : Disjoint(LiveRange(l), m)

\* the call went through a slab allocator: the large-allocation list and
\* byte count are untouched and at most one slab page was taken
SlabPathTaken ==
    /\ heap'.large_allocations = heap.large_allocations
    /\ heap'.large_mem = heap.large_mem
    /\ heap'.heap_allocated = heap.heap_allocated
    /\ vmm'.next_virt - vmm.next_virt \in {0, PAGE_SIZE}
    /\ last'.ret # 0 => PageBase(last'.ret) \in DOMAIN heap'.slab_mem

\* the call asked allocate_region for the pages of size plus the size_t
\* header and left every slab allocator untouched
LargePathTaken ==
    /\ heap'.slabs = heap.slabs
    /\ heap'.slab_mem = heap.slab_mem
    /\ vmm'.next_virt - vmm.next_virt
         = ((last'.size + SIZE_T + PAGE_SIZE - 1) \div PAGE_SIZE) * PAGE_SIZE
    /\ vmm'.next_virt - vmm.next_virt > PAGE_SIZE
    /\ last'.ret # 0 =>
          /\ last'.ret = vmm.next_virt + LARGE_HEADER_SIZE
          /\ heap'.large_allocations = vmm.next_virt

\* C10 (as claimed): kmalloc(4096) takes the slab path and kmalloc(4097)
\* takes the page-backed path.
C10_BoundaryAtClassSize ==
    [][last'.op = "kmalloc" =>
          /\ last'.size = 4096 => SlabPathTaken
          /\ last'.size = 4097 => LargePathTaken]_vars

\* C10 (amended): kmalloc(4088), the largest class's byte count less the
\* size_t header, takes the slab path; kmalloc(4089), like kmalloc(4096)
\* and kmalloc(4097), takes the page-backed path.
C10_BoundaryWithHeader ==
    [][last'.op = "kmalloc" =>
          /\ last'.size = 4088 => SlabPathTaken
          /\ last'.size \in {4089, 4096, 4097} => LargePathTaken]_vars

\* C10 witness: kmalloc(4089) has just returned a page-backed allocation
\* after a request of 4088 bytes had created the slab of the 4096 class.
C10_Witness ==
    /\ last.op = "kmalloc"
    /\ last.size = 4089
    /\ last.ret # 0
    /\ heap.large_allocations = last.ret - LARGE_HEADER_SIZE
    /\ heap.slabs[num_slabs].partial_slabs # 0

\* C11 (as claimed): every pointer kmalloc returns on the slab path is a
\* multiple of the object size of the slab's size class.
C11_SlabPointerAligned ==
    (/\ last.op = "kmalloc"
     /\ last.ret # 0
     /\ PageBase(last.ret) \in DOMAIN heap.slab_mem) =>
        last.ret % heap.slab_mem[PageBase(last.ret)].size = 0

(***************************************************************************)
(* Specification of kmalloc / kfree with kfree calls on pointers that are  *)
(* not live allocations                                                    *)
(***************************************************************************)
\* values the 8 bytes of user data before an interior pointer can hold
GarbageSizes == {0, 8, 4089}

RECURSIVE SumSizes(_)
SumSizes(L) ==
    IF L = {} THEN 0
    ELSE Let(CHOOSE l \in L : TRUE, LAMBDA l : l.size + SumSizes(L \ {l}))

\* live allocations held in slabs of class c
LiveInClass(c) ==
    {l \in live : /\ PageBase(l.ptr) \in DOMAIN heap.slab_mem
                  /\ find_slab(l.size + SIZE_T) = c}

\* the heap counters agree with the live allocations: no kfree of a pointer
\* that is not live has disturbed them
HeapSound ==
    /\ heap.heap_used = SumSizes(live)
    /\ \A c \in 1..num_slabs :
          heap.slabs[c].total_objects - heap.slabs[c].free_objects
              = Cardinality(LiveInClass(c))

\* kfree of the slab pointer that the previous call has just freed
KfreeStale ==
    /\ HeapSound
    /\ last.op = "kfree"
    /\ PageBase(last.ptr) \in DOMAIN heap.slab_mem
    /\ Let(kfree_foreign(Sys, last.ptr, heap.size_mem[last.ptr - SIZE_T]),
           LAMBDA S :
           /\ pmm' = S.pmm
           /\ vmm' = S.vmm
           /\ heap' = S.heap)
    /\ last' = [op |-> "kfree_foreign", ptr |-> last.ptr]
    /\ UNCHANGED <<held, regions, live>>

\* kfree of a pointer 8 bytes inside a live slab object; the size it reads
\* is the object's user data
KfreeInterior(l, size) ==
    /\ HeapSound
    /\ l \in live
    /\ PageBase(l.ptr) \in DOMAIN heap.slab_mem
    /\ l.size > SIZE_T
    /\ Let(kfree_foreign(Sys, l.ptr + SIZE_T, size), LAMBDA S :
           /\ pmm' = S.pmm
           /\ vmm' = S.vmm
           /\ heap' = S.heap)
    /\ last' = [op |-> "kfree_foreign", ptr |-> l.ptr + SIZE_T]
    /\ UNCHANGED <<held, regions, live>>

NextHeapForeign ==
    \/ \E size \in KmallocSizes : Kmalloc(size)
    \/ \E l \in live : Kfree(l)
    \/ KfreeStale
    \/ \E l \in live : \E size \in GarbageSizes : KfreeInterior(l, size)

SpecHeapForeign == InitHeap /\ [][NextHeapForeign]_vars

\* C13 (as claimed): kfree of a non-null pointer that is neither a live slab
\* object nor a large allocation modifies no slab inventory, free count or
\* list, not the large-allocation list and not the heap counters.
C13_ForeignFreeChangesNothing ==
    [][last'.op = "kfree_foreign" => heap' = heap]_vars

(***************************************************************************)
(* Specification of the fallback initialisation                            *)
(***************************************************************************)
\* size of the kernel image: 64 KiB
KERNEL_SIZE == PageAddr(16)

\* kernel images are placed at 1 MiB (as the boot code links it) and at
\* addresses around 16 MiB, page aligned or not
KernelStarts ==
    {PageAddr(256)}
        \cup {U64(FALSE, DMA_LIMIT + k, off) :
                 k \in (0 - 2)..KernelShift, off \in {0, 2048}}

\* sizes of memory: the low 16 MiB and room for the kernel image and the
\* inventory storage wherever KernelStarts places them
TotalMems == {PageAddr(DMA_LIMIT + FallbackFrames + j) : j \in 0..3}

\* the memory size the boot code passes: 256 MiB
BOOT_TOTAL == PageAddr(65536)

\* the state after init_fallback for each placement and memory size
InitFallbackBoot ==
    /\ \/ \E k \in KernelStarts : \E t \in TotalMems :
             pmm = init_fallback(pmm_boot, k, Plus(k, KERNEL_SIZE), t)
       \/ pmm = init_fallback(pmm_boot, KernelStart, KernelEnd, BOOT_TOTAL)
    /\ vmm = vmm_boot
    /\ heap = heap_boot
    /\ last = NoOp
    /\ held = {}
    /\ regions = {}
    /\ live = {}

GetStats ==
    /\ last = NoOp
    /\ last' = [op |-> "get_stats", ret |-> get_stats(pmm)]
    /\ UNCHANGED <<pmm, vmm, heap, held, regions, live>>

NextFallback == GetStats

SpecFallback == InitFallbackBoot /\ [][NextFallback]_vars

\* the frame with number `page` shares a byte with [from, to)
Overlaps(page, from, to) ==
    Below(from, PageAddr(page + 1)) /\ Below(PageAddr(page), to)

\* first and one-past-last byte of the inventory storage placed after the
\* kernel image
InventoryStart == PageAddr(PageUp(pmm.kernel_end))
InventoryEnd ==
    Plus(InventoryStart,
         PageAddr((BitmapBytes(DMA_PAGES) + BitmapBytes(NORMAL_PAGES)
                     + BitmapBytes(HIGH_PAGES)) \div PAGE_SIZE))

\* frames of the normal zone that hold neither a byte of the kernel image
\* nor a byte of the inventory storage
ClearFrames ==
    {f \in DMA_LIMIT..(PageOf(pmm.memory_size) - 1) :
        /\ ~Overlaps(f, pmm.kernel_start, pmm.kernel_end)
        /\ ~Overlaps(f, InventoryStart, InventoryEnd)}

C14_FallbackFreeCount ==
    last.op = "get_stats" =>
        last.ret.free_pages
            = PageOf(pmm.memory_size) - DMA_LIMIT - PageOf(KERNEL_SIZE)
                - (PageOf(InventoryEnd) - PageOf(InventoryStart))

(***************************************************************************)
(* Specification of the memory-map initialisation                          *)
(***************************************************************************)
\* memory maps of two entries: a region around the kernel image (1 MiB,
\* 64 KiB) and the inventory storage behind it, page aligned or not, and
\* a region at 16 MiB; each of them usable RAM (type 1) or not
MemoryMaps ==
    { << Region(U64(FALSE, p, off), PageAddr(n), t1),
         Region(PageAddr(DMA_LIMIT), PageAddr(NormalFrames), t2) >> :
        p \in {254, 255, 270, 271, 272}, off \in {0, 512},
        n \in 2..MaxRegionFrames, t1 \in {1, 2}, t2 \in {1, 3} }

InitMmap ==
    /\ \E mmap \in MemoryMaps :
          /\ pmm = pmm_init(pmm_boot, mmap, KernelStart, KernelEnd)
          /\ last = [op |-> "pmm_init", mmap |-> mmap]
    /\ vmm = vmm_boot
    /\ heap = heap_boot
    /\ held = {}
    /\ regions = {}
    /\ live = {}

GetStatsMmap ==
    /\ last.op = "pmm_init"
    /\ last' = [op |-> "get_stats", mmap |-> last.mmap,
                ret |-> get_stats(pmm)]
    /\ UNCHANGED <<pmm, vmm, heap, held, regions, live>>

NextMmap == GetStatsMmap

SpecMmap == InitMmap /\ [][NextMmap]_vars

\* frame numbers of the frames marked free in some zone
FreeFrames ==
    pmm.zones[zone_dma].bitmap
        \cup {DMA_LIMIT + i : i \in pmm.zones[zone_normal].bitmap}
        \cup {HIGH_BASE + i : i \in pmm.zones[zone_high].bitmap}

\* the frame lies entirely inside a type-1 entry of the memory map
InsideUsable(page, mmap) ==
    \E i \in 1..Len(mmap) :
        /\ mmap[i].type = 1
        /\ ~Below(PageAddr(page), mmap[i].base)
        /\ ~Below(Plus(mmap[i].base, mmap[i].length), PageAddr(page + 1))

\* C15 (as claimed): after the memory-map initialisation a frame is marked
\* free only if it lies entirely inside a type-1 region and overlaps
\* neither the kernel image nor the inventory storage placed after it.
C15_FreeOnlyUsableClear ==
    \A f \in FreeFrames :
        /\ InsideUsable(f, last.mmap)
        /\ ~Overlaps(f, pmm.kernel_start, pmm.kernel_end)
        /\ ~Overlaps(f, InventoryStart, InventoryEnd)

(***************************************************************************)
(* Specification of get_physical over page-table trees                     *)
(* The trees are inputs: one path of four tables whose entries are absent, *)
(* stale (bits set, present clear), table pointers, superpage leaves or    *)
(* page leaves.                                                            *)
(***************************************************************************)
WalkPml4 == PageAddr(DMA_LIMIT)
WalkPdpt == PageAddr(DMA_LIMIT + 1)
WalkPd == PageAddr(DMA_LIMIT + 2)
WalkPt == PageAddr(DMA_LIMIT + 3)

TableFlags == Or(Or(present, writable), user)

\* what one entry of the path may hold, given the table below it
PointerEntries(next) ==
    { Zero, Or(next, writable), Or(next, TableFlags),
      Or(Or(next, TableFlags), no_execute) }

\* superpage leaves: bits 12..29 (12..20) of the entry are not all zero
LargeEntries1G ==
    { Or(Or(U64(nx, 512 * 512 + 5 * 512 + 7, 0), large), TableFlags) :
        nx \in BOOLEAN }

LargeEntries2M ==
    { Or(Or(U64(nx, 9 * 512 + 11, 0), large), TableFlags) : nx \in BOOLEAN }

LeafEntries ==
    { Zero, U64(FALSE, 77, 2), Or(PageAddr(77), TableFlags),
      Or(Or(PageAddr(77), no_execute), Or(present, large)) }

WalkTree(e4, e3, e2, e1) ==
    SetEntry(SetEntry(SetEntry(SetEntry(
        [a \in {WalkPml4, WalkPdpt, WalkPd, WalkPt} |-> EmptyTable],
        WalkPml4, 0, e4), WalkPdpt, 1, e3), WalkPd, 2, e2), WalkPt, 3, e1)

\* addresses on the path and beside it at every level
WalkVAs ==
    { VA(0, i4, i3, i2, i1, o) :
        i4 \in {0}, i3 \in {1, 4}, i2 \in {2, 5}, i1 \in {3, 6},
        o \in {0, 4095} }
      \cup { VA(0, 1, 1, 2, 3, 1) }

InitWalk ==
    /\ pmm = pmm_boot
    /\ \E e4 \in PointerEntries(WalkPdpt) :
       \E e3 \in PointerEntries(WalkPd) \cup LargeEntries1G :
       \E e2 \in PointerEntries(WalkPt) \cup LargeEntries2M :
       \E e1 \in LeafEntries :
          vmm = [vmm_boot EXCEPT !.mem = WalkTree(e4, e3, e2, e1),
                                 !.kernel_space.pml4 = WalkPml4]
    /\ heap = heap_boot
    /\ last = NoOp
    /\ held = {}
    /\ regions = {}
    /\ live = {}

\* vmm::get_physical(virt)
GetPhysical(va) ==
    /\ last = NoOp
    /\ last' = [op |-> "get_physical", va |-> va,
                ret |-> get_physical(Mach, kernel_id, va)]
    /\ UNCHANGED <<pmm, vmm, heap, held, regions, live>>

NextWalk == \E va \in WalkVAs : GetPhysical(va)

SpecWalk == InitWalk /\ [][NextWalk]_vars

\* the entries the walk of va meets, level 4 first
WalkE4(va) == Entry(vmm.mem, vmm.kernel_space.pml4, va.pml4_index)
WalkE3(va) == Entry(vmm.mem, MaskPage(WalkE4(va)), va.pdpt_index)
WalkE2(va) == Entry(vmm.mem, MaskPage(WalkE3(va)), va.pd_index)
WalkE1(va) == Entry(vmm.mem, MaskPage(WalkE2(va)), va.pt_index)

\* bits 0..62 of a word, as a number
Low63(w) == w.pfn * PAGE_SIZE + w.low

\* the low 30, 21 and 12 bits of a virtual address
VirtLow(va, bits) ==
    ((va.pd_index * ENTRIES + va.pt_index) * PAGE_SIZE + va.offset)
        % (2 ^ bits)

\* (entry with its low `bits` bits cleared) | (va's low `bits` bits)
LeafOf(entry, va, bits, r) ==
    /\ r.nx = entry.nx
    /\ Low63(r) = Low63(entry) - (Low63(entry) % (2 ^ bits))
                    + VirtLow(va, bits)

\* C21: get_physical returns 0 as soon as a level of the walk is absent,
\* resolves a present third-level entry with the large flag to the entry
\* without its low 30 bits or-ed with the address's low 30 bits, a present
\* second-level entry with the large flag likewise with 21 bits, and
\* modifies no table.
C21_GetPhysicalWalk ==
    [][last'.op = "get_physical" =>
         Let(last'.va, LAMBDA va :
           /\ vmm' = vmm
           /\ pmm' = pmm
           /\ IF ~Has(WalkE4(va), present) THEN last'.ret = Zero
              ELSE IF ~Has(WalkE3(va), present) THEN last'.ret = Zero
              ELSE IF Has(WalkE3(va), large)
                   THEN LeafOf(WalkE3(va), va, 30, last'.ret)
              ELSE IF ~Has(WalkE2(va), present) THEN last'.ret = Zero
              ELSE IF Has(WalkE2(va), large)
                   THEN LeafOf(WalkE2(va), va, 21, last'.ret)
              ELSE IF ~Has(WalkE1(va), present) THEN last'.ret = Zero
              ELSE LeafOf(WalkE1(va), va, 12, last'.ret))]_vars

\* C21 witness: get_physical has resolved a 1 GiB leaf whose entry has bits
\* set below bit 30 and above the flags, for an address with non-zero low
\* 30 bits, in a tree that also holds tables below that entry's slot.
C21_Witness ==
    /\ last.op = "get_physical"
    /\ Has(WalkE4(last.va), present)
    /\ Has(WalkE3(last.va), present)
    /\ Has(WalkE3(last.va), large)
    /\ WalkE3(last.va).pfn % (512 * 512) # 0
    /\ VirtLow(last.va, 30) # 0
    /\ last.ret # Zero
    /\ Entry(vmm.mem, WalkPt, 3) # Zero

\* C21 witness of the 2 MiB case and of a stale entry ending the walk
C21_Witness2M ==
    /\ last.op = "get_physical"
    /\ Has(WalkE4(last.va), present)
    /\ Has(WalkE3(last.va), present) /\ ~Has(WalkE3(last.va), large)
    /\ Has(WalkE2(last.va), present) /\ Has(WalkE2(last.va), large)
    /\ last.ret.nx
    /\ last.ret.low = 4095

C21_WitnessStale ==
    /\ last.op = "get_physical"
    /\ WalkE4(last.va) # Zero /\ ~Has(WalkE4(last.va), present)
    /\ last.ret = Zero

(***************************************************************************)
(* Specification of create_address_space / map / destroy_address_space     *)
(* regions holds, for every space created and not yet destroyed, the       *)
(* frames taken by its creation and by its map calls, and whether all of   *)
(* its map calls returned true; held counts the successful creations.      *)
(***************************************************************************)
\* free frames left after vmm::init
SpaceFrames == 7
\* spaces with a top-level table at any time
MaxAliveSpaces == 1
\* map calls per space
MaxSpaceMapped == 2
\* the spaces of the pool that receive map calls
MappedSpaces == {1}

\* usable memory from 16 MiB for the kernel's tables and SpaceFrames more,
\* without and with two usable frames at address 0
SpaceMemoryMaps ==
    { << Region(PageAddr(DMA_LIMIT), PageAddr(KernelTables + n), 1) >> :
          n \in {0, 1, SpaceFrames} }
      \cup { << Region(Zero, PageAddr(2), 1),
                Region(PageAddr(DMA_LIMIT), PageAddr(KernelTables + 1), 1) >> }

SpaceBootStates ==
    { vmm_init([pmm |-> pmm_init(pmm_boot, mmap, KernelStart, KernelEnd),
                vmm |-> vmm_boot], KernelMapPages) :
        mmap \in SpaceMemoryMaps }

\* lower-half pages under two different top-level entries and a second
\* page of the first page table
SpaceVAs ==
    { VA(0, 0, 0, 0, 0, 0), VA(0, 0, 0, 0, 1, 0), VA(0, 1, 0, 0, 0, 0) }

FreeSet(P) ==
    UNION { { ZoneAddr(z, p) : p \in P.zones[z].bitmap } : z \in ZoneTypes }

AliveSpaces == { k \in 1..POOL_SIZE : vmm.space_pool[k].pml4 # Zero }

InitSpaces ==
    /\ \E M \in SpaceBootStates : pmm = M.pmm /\ vmm = M.vmm
    /\ heap = heap_boot
    /\ last = NoOp
    /\ held = 0
    /\ regions = {}
    /\ live = {}

CreateAddressSpace ==
    /\ Cardinality(AliveSpaces) < MaxAliveSpaces
    /\ Let(create_address_space(Mach), LAMBDA r :
           /\ pmm' = r.st.pmm
           /\ vmm' = r.st.vmm
           /\ last' = [op |-> "create_address_space", ret |-> r.ret]
           /\ held' = IF r.ret # nullptr THEN held + 1 ELSE held
           /\ regions' =
                 IF r.ret # nullptr
                 THEN regions \cup
                        {[space |-> r.ret,
                          taken |-> FreeSet(pmm) \ FreeSet(r.st.pmm),
                          clean |-> TRUE]}
                 ELSE regions)
    /\ UNCHANGED <<heap, live>>

\* space->map(virt, phys, flags) on a space of the pool
SpaceMap(space, va) ==
    /\ space \in AliveSpaces
    /\ vmm.space_pool[space].mapped_pages < MaxSpaceMapped
    /\ Let(map(Mach, space, va, PageAddr(7), writable), LAMBDA r :
           /\ pmm' = r.st.pmm
           /\ vmm' = r.st.vmm
           /\ last' = [op |-> "map", space |-> space, va |-> va,
                       ret |-> r.ret]
           /\ regions' =
                 { IF g.space = space
                   THEN [g EXCEPT
                           !.taken = @ \cup (FreeSet(pmm) \ FreeSet(r.st.pmm)),
                           !.clean = @ /\ r.ret]
                   ELSE g : g \in regions })
    /\ UNCHANGED <<heap, held, live>>

DestroyAddressSpace(space) ==
    /\ Let(destroy_address_space(Mach, space), LAMBDA st :
           /\ pmm' = st.pmm
           /\ vmm' = st.vmm
           /\ last' = [op |-> "destroy_address_space", space |-> space,
                       freed |-> Cardinality(FreeSet(st.pmm) \ FreeSet(pmm))])
    /\ regions' = { g \in regions : g.space # space }
    /\ UNCHANGED <<heap, held, live>>

\* pointers passed to destroy_address_space: null, the kernel space, the
\* live spaces and, when handed out, the spaces of MappedSpaces whether
\* live or destroyed
DestroyArgs ==
    {nullptr, kernel_id} \cup AliveSpaces
        \cup {k \in MappedSpaces : k <= vmm.next_space}

NextSpaces ==
    \/ CreateAddressSpace
    \/ \E space \in MappedSpaces : \E va \in SpaceVAs : SpaceMap(space, va)
    \/ \E space \in DestroyArgs : DestroyAddressSpace(space)

SpecSpaces == InitSpaces /\ [][NextSpaces]_vars

\* kernel-space addresses whose translation is compared
KernelProbes ==
    { KernelVA(0), KernelVA(1), VA(0, 0, 0, 0, 0, 0), VA(0, 1, 0, 0, 0, 0) }

\* C22: destroy_address_space on a live space of the pool whose map calls
\* all returned true gives back exactly the frames taken by its creation
\* and its map calls, each once (the free count rises by their number), and
\* leaves every table entry, the kernel space, every other space and every
\* kernel-space translation as it was; on a destroyed space, the kernel
\* space or null it changes nothing.
C22_DestroyFreesOwnTables ==
    [][last'.op = "destroy_address_space" =>
         IF last'.space \in AliveSpaces
         THEN /\ vmm'.mem = vmm.mem
              /\ vmm'.kernel_space = vmm.kernel_space
              /\ vmm'.next_space = vmm.next_space
              /\ \A k \in 1..POOL_SIZE :
                    k # last'.space => vmm'.space_pool[k] = vmm.space_pool[k]
              /\ \A w \in KernelProbes :
                    get_physical(Mach', kernel_id, w)
                        = get_physical(Mach, kernel_id, w)
              /\ \A g \in regions :
                    (g.space = last'.space /\ g.clean) =>
                        /\ g.taken \cap FreeSet(pmm) = {}
                        /\ FreeSet(pmm') = FreeSet(pmm) \cup g.taken
                        /\ get_stats(pmm').free_pages
                              = get_stats(pmm).free_pages
                                  + Cardinality(g.taken)
                        /\ \A z \in ZoneTypes :
                              pmm'.zones[z].free_pages
                                  = Cardinality(pmm'.zones[z].bitmap)
         ELSE pmm' = pmm /\ vmm' = vmm]_vars

\* C22 witness: a space with pages under two top-level entries (seven
\* tables) has just been destroyed, its top-level table still holds the
\* copied kernel entry, and the kernel's leaf entry is still present.
C22_Witness ==
    /\ last.op = "destroy_address_space"
    /\ last.space \in 1..POOL_SIZE
    /\ last.freed = 7
    /\ \E t \in DOMAIN vmm.mem :
          /\ t # vmm.kernel_space.pml4
          /\ Has(Entry(vmm.mem, t, ENTRIES - 1), present)
          /\ Entry(vmm.mem, t, ENTRIES - 1)
                = Entry(vmm.mem, vmm.kernel_space.pml4, ENTRIES - 1)
    /\ Has(WalkE1(KernelVA(0)), present)

\* C22 witness of the calls that change nothing: a second destroy
C22_WitnessSecond ==
    /\ last.op = "destroy_address_space"
    /\ last.space \in 1..POOL_SIZE
    /\ last.freed = 0

\* C23: the successful creations are at most POOL_SIZE; next_space equals
\* their number whatever was destroyed and whatever failed, so a failed
\* creation consumes no slot; once POOL_SIZE creations have succeeded every
\* creation returns null and changes nothing.
C23_PoolNeverRefilled ==
    [][/\ held' <= POOL_SIZE
       /\ vmm'.next_space = held'
       /\ last'.op = "create_address_space" =>
            /\ last'.ret = nullptr => vmm'.next_space = vmm.next_space
            /\ last'.ret # nullptr =>
                  /\ last'.ret = held'
                  /\ held < POOL_SIZE
            /\ held = POOL_SIZE =>
                  last'.ret = nullptr /\ pmm' = pmm /\ vmm' = vmm]_vars

\* C23 witness: a creation has returned null after POOL_SIZE successes
\* although spaces were destroyed and a frame is free.
C23_Witness ==
    /\ last.op = "create_address_space"
    /\ last.ret = nullptr
    /\ held = POOL_SIZE
    /\ AliveSpaces = {}
    /\ FreeSet(pmm) # {}

\* C23 witness of a creation that failed for want of a frame with slots
\* left
C23_WitnessNoFrame ==
    /\ last.op = "create_address_space"
    /\ last.ret = nullptr
    /\ held < POOL_SIZE
    /\ FreeSet(pmm) = {}

(***************************************************************************)
(* Specification of one zone's bitmap_allocator across two inventory words *)
(***************************************************************************)
\* frames of the zone: one inventory word and two frames of the next
HintFrames == 66

\* the normal zone after pmm::init with HintFrames usable frames at 16 MiB
HintBootStates ==
    { pmm_init(pmm_boot, << Region(PageAddr(DMA_LIMIT), PageAddr(HintFrames), 1) >>,
               KernelStart, KernelEnd) }

\* pages passed to free and free_contiguous: the second page of the first
\* word, the last page of the first word and the last frame of the zone
HintPages == {1, WORD_BITS - 1, HintFrames - 1}

InitHint ==
    /\ pmm \in HintBootStates
    /\ vmm = vmm_boot
    /\ heap = heap_boot
    /\ last = NoOp
    /\ held = {}
    /\ regions = {}
    /\ live = {}

ZoneAllocate ==
    /\ Let(allocate(pmm.zones[zone_normal]), LAMBDA r :
           /\ pmm' = [pmm EXCEPT !.zones[zone_normal] = r.z]
           /\ last' = [op |-> "allocate", ret |-> r.page])
    /\ UNCHANGED <<vmm, heap, held, regions, live>>

ZoneAllocateContiguous(count) ==
    /\ Let(allocate_contiguous(pmm.zones[zone_normal], count), LAMBDA r :
           /\ pmm' = [pmm EXCEPT !.zones[zone_normal] = r.z]
           /\ last' = [op |-> "allocate_contiguous", count |-> count,
                       ret |-> r.page])
    /\ UNCHANGED <<vmm, heap, held, regions, live>>

ZoneFree(page_num) ==
    /\ pmm' = [pmm EXCEPT !.zones[zone_normal] = free(@, page_num)]
    /\ last' = [op |-> "free", page |-> page_num]
    /\ UNCHANGED <<vmm, heap, held, regions, live>>

ZoneFreeContiguous(start_page, count) ==
    /\ pmm' = [pmm EXCEPT !.zones[zone_normal] =
                  free_contiguous(@, start_page, count)]
    /\ last' = [op |-> "free_contiguous", page |-> start_page,
                count |-> count]
    /\ UNCHANGED <<vmm, heap, held, regions, live>>

NextHint ==
    \/ ZoneAllocate
    \/ \E count \in {2} : ZoneAllocateContiguous(count)
    \/ \E page_num \in HintPages : ZoneFree(page_num)
    \/ \E start_page \in HintPages : ZoneFreeContiguous(start_page, 2)

SpecHint == InitHint /\ [][NextHint]_vars

\* no free page lies in an inventory word before the hint's word
HintCoversFree(z) ==
    \A p \in z.bitmap : p \div WORD_BITS >= z.first_free_page \div WORD_BITS

\* C24: before and after every allocate, allocate_contiguous, free and
\* free_contiguous call on a zone no free frame lies in an inventory word
\* before the hint's word, and allocate returns the lowest-numbered free
\* frame, failing only when the zone has none.
C24_HintNeverHidesFree ==
    [][/\ HintCoversFree(pmm.zones[zone_normal])
       /\ HintCoversFree(pmm'.zones[zone_normal])
       /\ last'.op = "allocate" =>
            /\ last'.ret = IF pmm.zones[zone_normal].bitmap = {} THEN NoPage
                           ELSE SetMin(pmm.zones[zone_normal].bitmap)
            /\ pmm'.zones[zone_normal].bitmap
                  = pmm.zones[zone_normal].bitmap \ {last'.ret}]_vars

\* C24 witness: allocate has returned page 1 of the first word, freed after
\* the allocations had moved on to the second word.
C24_Witness ==
    /\ last.op = "allocate"
    /\ last.ret = 1
    /\ 0 \notin pmm.zones[zone_normal].bitmap
    /\ WORD_BITS \notin pmm.zones[zone_normal].bitmap
    /\ WORD_BITS + 1 \in pmm.zones[zone_normal].bitmap

\* C24 witness of a scan that starts at the second word, and of a failure
C24_WitnessSecondWord ==
    /\ last.op = "allocate"
    /\ last.ret = WORD_BITS + 1
    /\ pmm.zones[zone_normal].first_free_page = WORD_BITS + 2

C24_WitnessNone ==
    /\ last.op = "allocate"
    /\ last.ret = NoPage

(***************************************************************************)
(* The slab lists of a size class                                          *)
(***************************************************************************)
\* the slab pages of class c
SlabsOf(c) ==
    { a \in DOMAIN heap.slab_mem : heap.slab_mem[a].size = slab_sizes[c] }

\* the slabs met from `slab` along next, at most `fuel` of them
RECURSIVE ListFrom(_, _)
ListFrom(slab, fuel) ==
    IF slab = 0 \/ fuel = 0 THEN << >>
    ELSE <<slab>> \o ListFrom(heap.slab_mem[slab].next, fuel - 1)

\* the list under one of the three heads of class c; a walk longer than the
\* number of slabs has met a slab twice
ListOf(c, list) == ListFrom(heap.slabs[c][list], Cardinality(SlabsOf(c)) + 1)

OnList(c, list) == { ListOf(c, list)[i] : i \in 1..Len(ListOf(c, list)) }

\* C25 (as claimed): after any sequence of kmalloc and kfree calls on live
\* pointers every slab of every class is reachable from exactly one of the
\* partial, full and empty heads, exactly once, and no list is cyclic.
C25_ExactlyOneList ==
    \A c \in 1..num_slabs :
        /\ OnList(c, "partial_slabs") \cup OnList(c, "full_slabs")
              \cup OnList(c, "empty_slabs") = SlabsOf(c)
        /\ Len(ListOf(c, "partial_slabs")) + Len(ListOf(c, "full_slabs"))
              + Len(ListOf(c, "empty_slabs")) = Cardinality(SlabsOf(c))

\* the free count of a slab agrees with the list it is reached from
CountFits(c, list, slab) ==
    Let(heap.slab_mem[slab].free_count, LAMBDA n :
        CASE list = "full_slabs" -> n = 0
          [] list = "empty_slabs" -> n = heap.slabs[c].objects_per_slab
          [] OTHER -> 0 < n /\ n < heap.slabs[c].objects_per_slab)

SlabLists == {"partial_slabs", "full_slabs", "empty_slabs"}

\* C26 (as claimed): between operations every slab on the full list has
\* free count 0, every slab on the empty list has free count
\* objects_per_slab, every slab on the partial list has a count strictly
\* between, and every count stays within [0, objects_per_slab].
C26_ListMatchesCount ==
    \A c \in 1..num_slabs :
        /\ \A list \in SlabLists : \A slab \in OnList(c, list) :
              CountFits(c, list, slab)
        /\ \A slab \in SlabsOf(c) :
              /\ 0 <= heap.slab_mem[slab].free_count
              /\ heap.slab_mem[slab].free_count
                    <= heap.slabs[c].objects_per_slab

\* the same for the classes with at least one object per slab
C26_ListMatchesCountButOnePageClass ==
    \A c \in 1..num_slabs :
        heap.slabs[c].objects_per_slab > 0 =>
            \A list \in SlabLists : \A slab \in OnList(c, list) :
                CountFits(c, list, slab)

\* frames enough for one more slab page and the three tables its mapping
\* can need are free in the normal zone
FramesForSlab == Cardinality(pmm.zones[zone_normal].bitmap) >= 4

\* C27 (as claimed): every class of the ladder has at least one object per
\* slab, and kmalloc(size) with size + sizeof(size_t) at or below the
\* largest class returns non-null when frames are free.
C27_EveryClassServes ==
    [][/\ \A c \in 1..num_slabs : heap.slabs[c].objects_per_slab >= 1
       /\ (/\ last'.op = "kmalloc"
           /\ last'.size > 0
           /\ last'.size + SIZE_T <= slab_sizes[num_slabs]
           /\ FramesForSlab)
             => last'.ret # 0]_vars

\* the same for the classes below the one-page class
C27_EveryClassServesButOnePage ==
    [][/\ \A c \in 1..(num_slabs - 1) : heap.slabs[c].objects_per_slab >= 1
       /\ (/\ last'.op = "kmalloc"
           /\ last'.size > 0
           /\ last'.size + SIZE_T <= slab_sizes[num_slabs - 1]
           /\ FramesForSlab)
             => last'.ret # 0]_vars

\* the slabs of class c with a free slot
WithFreeSlot(c) ==
    { slab \in SlabsOf(c) : heap.slab_mem[slab].free_bitmap # {} }

\* the object at ptr - sizeof(size_t) is a free slot of its slab
IsFreeSlot(c, ptr) ==
    Let(PageBase(ptr), LAMBDA slab :
        /\ slab \in SlabsOf(c)
        /\ (ptr - SIZE_T - slab - SLAB_HEADER_SIZE) % slab_sizes[c] = 0
        /\ (ptr - SIZE_T - slab - SLAB_HEADER_SIZE) \div slab_sizes[c]
              \in heap.slab_mem[slab].free_bitmap)

\* C28 (as claimed): for a class with at least one object per slab, kmalloc
\* returns a non-null pointer to a free slot whenever some slab of the
\* class has one, and returns null only when none has and a new slab page
\* cannot be obtained.
C28_NoFalseExhaustion ==
    [][(/\ last'.op = "kmalloc"
        /\ last'.size > 0
        /\ last'.size + SIZE_T <= PAGE_SIZE)
          => Let(find_slab(last'.size + SIZE_T), LAMBDA c :
               heap.slabs[c].objects_per_slab >= 1 =>
                 /\ WithFreeSlot(c) # {} =>
                       last'.ret # 0 /\ IsFreeSlot(c, last'.ret)
                 /\ last'.ret = 0 =>
                       /\ WithFreeSlot(c) = {}
                       /\ allocate_region(Mach, 1, DefaultFlags).ret = 0)]_vars

(***************************************************************************)
(* Specification of kmalloc / kfree on one class of three objects per slab *)
(***************************************************************************)
\* live allocations at any time: two full slabs and one request more
MaxSlabLive == 7

\* slab pages of the class
MaxSlabPages == 2

\* request sizes of class 1024: (4096 - 88) / 1024 = 3 objects per slab
SlabClassSizes == {1016}

KmallocSlabClass(size) ==
    /\ Cardinality(live) < MaxSlabLive
    /\ Let(kmalloc(Sys, size), LAMBDA r :
           /\ r.st.vmm.next_virt <= REGION_BASE + MaxSlabPages * PAGE_SIZE
           /\ pmm' = r.st.pmm
           /\ vmm' = r.st.vmm
           /\ heap' = r.st.heap
           /\ last' = [op |-> "kmalloc", size |-> size, ret |-> r.ret]
           /\ live' = IF r.ret # 0
                      THEN live \cup {[ptr |-> r.ret, size |-> size]}
                      ELSE live)
    /\ UNCHANGED <<held, regions>>

NextSlabClass ==
    \/ \E size \in SlabClassSizes : KmallocSlabClass(size)
    \/ \E l \in live : Kfree(l)

SpecSlabClass == InitHeap /\ [][NextSlabClass]_vars

\* C28 restricted to the calls made while every slab is on exactly one
\* list: the defect of C25 has not yet acted
C28_NoFalseExhaustionOnSoundLists ==
    [][C25_ExactlyOneList =>
        ((/\ last'.op = "kmalloc"
          /\ last'.size > 0
          /\ last'.size + SIZE_T <= PAGE_SIZE)
            => Let(find_slab(last'.size + SIZE_T), LAMBDA c :
                 heap.slabs[c].objects_per_slab >= 1 =>
                   /\ WithFreeSlot(c) # {} =>
                         last'.ret # 0 /\ IsFreeSlot(c, last'.ret)
                   /\ last'.ret = 0 =>
                         /\ WithFreeSlot(c) = {}
                         /\ allocate_region(Mach, 1, DefaultFlags).ret = 0))]_vars

(***************************************************************************)
(* Specification of page-backed kmalloc / kfree                            *)
(***************************************************************************)
\* live page-backed allocations at any time
MaxLargeLive == 3
\* pages of virtual address space handed out
MaxLargePages == 8

\* frames of the normal zone
LargeFrames == 14

\* request sizes of two and of three pages
LargeSizes == {4089, 8185}

\* machine states after init_fallback, vmm::init and heap::init
LargeBootStates ==
    { vmm_init([pmm |-> init_fallback(pmm_boot, KernelStart, KernelEnd,
                                      PageAddr(DMA_LIMIT + LargeFrames)),
                vmm |-> vmm_boot], KernelMapPages) }

InitLarge ==
    /\ \E M \in LargeBootStates : pmm = M.pmm /\ vmm = M.vmm
    /\ heap = heap_init
    /\ last = NoOp
    /\ held = {}
    /\ regions = {}
    /\ live = {}

KmallocLarge(size) ==
    /\ Cardinality(live) < MaxLargeLive
    /\ Let(kmalloc(Sys, size), LAMBDA r :
           /\ r.st.vmm.next_virt <= REGION_BASE + MaxLargePages * PAGE_SIZE
           /\ pmm' = r.st.pmm
           /\ vmm' = r.st.vmm
           /\ heap' = r.st.heap
           /\ last' = [op |-> "kmalloc", size |-> size, ret |-> r.ret]
           /\ live' = IF r.ret # 0
                      THEN live \cup {[ptr |-> r.ret, size |-> size]}
                      ELSE live)
    /\ UNCHANGED <<held, regions>>

NextLarge ==
    \/ \E size \in LargeSizes : KmallocLarge(size)
    \/ \E l \in live : Kfree(l)

SpecLarge == InitLarge /\ [][NextLarge]_vars

\* the headers met from `header` along next, at most `fuel` of them
RECURSIVE LargeFrom(_, _)
LargeFrom(header, fuel) ==
    IF header = 0 \/ fuel = 0 \/ header \notin DOMAIN heap.large_mem
    THEN << >>
    ELSE <<header>> \o LargeFrom(heap.large_mem[header].next, fuel - 1)

LargeList == LargeFrom(heap.large_allocations, Cardinality(live) + 1)

\* C29: the large-allocation list's links are mutually consistent (the
\* head's prev is null, n.next.prev = n for every node with a successor,
\* the last node's next is null) and the list contains exactly the live
\* page-backed allocations, each once.
C29_LargeListConsistent ==
    /\ Len(LargeList) = Cardinality(live)
    /\ { LargeList[i] : i \in 1..Len(LargeList) }
          = { l.ptr - LARGE_HEADER_SIZE : l \in live }
    /\ DOMAIN heap.large_mem = { l.ptr - LARGE_HEADER_SIZE : l \in live }
    /\ heap.large_allocations # 0 =>
          heap.large_mem[heap.large_allocations].prev = 0
    /\ \A i \in 1..Len(LargeList) :
          /\ heap.large_mem[LargeList[i]].next
                = (IF i < Len(LargeList) THEN LargeList[i + 1] ELSE 0)
          /\ i > 1 => heap.large_mem[LargeList[i]].prev = LargeList[i - 1]
          /\ \E l \in live :
                /\ l.ptr = LargeList[i] + LARGE_HEADER_SIZE
                /\ heap.large_mem[LargeList[i]].size = l.size

\* C29 witness: the middle node of a list of three has just been freed.
C29_Witness ==
    /\ last.op = "kfree"
    /\ \E x \in live : x.ptr < last.ptr
    /\ \E y \in live : last.ptr < y.ptr
    /\ Len(LargeList) = 2

\* C29 witnesses of a freed tail and of a freed head of a list of three
C29_WitnessTail ==
    /\ last.op = "kfree"
    /\ Cardinality(live) = 2
    /\ \A x \in live : last.ptr < x.ptr

C29_WitnessHead ==
    /\ last.op = "kfree"
    /\ Cardinality(live) = 2
    /\ \A x \in live : x.ptr < last.ptr

(***************************************************************************)
(* The page-table tree of the kernel address space and the inventory       *)
(***************************************************************************)
\* the frames the present entries below index limit of the tables T name
ChildFrames(T, limit) ==
    UNION { { PageAddr(vmm.mem[t][i].pfn) :
                 i \in { j \in DOMAIN vmm.mem[t] :
                            j < limit /\ Has(vmm.mem[t][j], present) } } :
            t \in T \cap DOMAIN vmm.mem }

KernelPml4 == { vmm.kernel_space.pml4 }
KernelPdpts == ChildFrames(KernelPml4, ENTRIES)
KernelPds == ChildFrames(KernelPdpts, ENTRIES)
KernelPts == ChildFrames(KernelPds, ENTRIES)
KernelLeaves == ChildFrames(KernelPts, ENTRIES)

\* the same below the lower half of the top-level table, where the ranges
\* of allocate_region lie
LowerPdpts == ChildFrames(KernelPml4, ENTRIES \div 2)
LowerPds == ChildFrames(LowerPdpts, ENTRIES)
LowerPts == ChildFrames(LowerPds, ENTRIES)
LowerLeaves == ChildFrames(LowerPts, ENTRIES)

MarkedUsed(frame) == frame \notin FreeSet(pmm)

\* every entry that is not present is zero (an entry that is not zero is
\* present)
AbsentIsZero(T) ==
    \A t \in T \cap DOMAIN vmm.mem :
       \A i \in DOMAIN vmm.mem[t] : Has(vmm.mem[t][i], present)

\* C30: in every state reached by allocate_region and free_region calls on
\* the kernel address space, every present entry at every table level
\* refers to a frame marked used in the frame allocator (intermediate
\* entries to their table's frame, leaf entries to the page's frame) and
\* every absent entry is entirely zero.
C30_EntriesReferUsedFrames ==
    last.op \in {"allocate_region", "free_region"} =>
       /\ \A t \in KernelPdpts \cup KernelPds \cup KernelPts :
             t \in DOMAIN vmm.mem /\ MarkedUsed(t)
       /\ \A f \in KernelLeaves : MarkedUsed(f)
       /\ AbsentIsZero(KernelPml4 \cup KernelPdpts \cup KernelPds
                          \cup KernelPts)

\* C30 for all intermediate entries and for the leaf entries of the lower
\* half, the leaf entries that vmm::init wrote for the kernel mapping left
\* aside.
C30_EntriesButKernelMapping ==
    last.op \in {"allocate_region", "free_region"} =>
       /\ \A t \in KernelPdpts \cup KernelPds \cup KernelPts :
             t \in DOMAIN vmm.mem /\ MarkedUsed(t)
       /\ \A f \in LowerLeaves : MarkedUsed(f)
       /\ AbsentIsZero(KernelPml4 \cup KernelPdpts \cup KernelPds
                          \cup KernelPts)

(***************************************************************************)
(* Specification of create_address_space / destroy_address_space with map  *)
(* calls on the kernel space in the kernel half                            *)
(***************************************************************************)
\* free frames left after vmm::init
SharedFrames == 7
\* map calls on the kernel space after vmm::init
MaxSharedMapped == 2

SharedBootStates ==
    { vmm_init([pmm |-> pmm_init(pmm_boot,
                          << Region(PageAddr(DMA_LIMIT),
                                    PageAddr(KernelTables + n), 1) >>,
                          KernelStart, KernelEnd),
                vmm |-> vmm_boot], KernelMapPages) :
        n \in {1, SharedFrames} }

\* kernel-half pages: the page after the kernel mapping in its page table,
\* a page under another entry of the kernel's third-level table, and a page
\* under the top-level entry 256
SharedVAs ==
    { KernelVA(KernelMapPages), VA(65535, ENTRIES - 1, 0, 0, 0, 0),
      VA(65535, ENTRIES \div 2, 0, 0, 0, 0) }

InitShared ==
    /\ \E M \in SharedBootStates : pmm = M.pmm /\ vmm = M.vmm
    /\ heap = heap_boot
    /\ last = NoOp
    /\ held = 0
    /\ regions = {}
    /\ live = {}

\* kernel_space.map(virt, phys, flags) on a kernel-half address
KernelMap(va) ==
    /\ vmm.kernel_space.mapped_pages < KernelMapPages + MaxSharedMapped
    /\ Let(map(Mach, kernel_id, va, PageAddr(7), Or(writable, global)),
           LAMBDA r :
           /\ pmm' = r.st.pmm
           /\ vmm' = r.st.vmm
           /\ last' = [op |-> "map", space |-> kernel_id, va |-> va,
                       ret |-> r.ret,
                       top_before |->
                          Entry(vmm.mem, vmm.kernel_space.pml4,
                                va.pml4_index)])
    /\ UNCHANGED <<heap, held, regions, live>>

NextShared ==
    \/ CreateAddressSpace
    \/ \E va \in SharedVAs : KernelMap(va)
    \/ \E space \in AliveSpaces : DestroyAddressSpace(space)

SpecShared == InitShared /\ [][NextShared]_vars

\* C31: every space created and not yet destroyed has the kernel space's
\* top-level entries 256..511 and translates every kernel-half address as
\* the kernel space does, also after later map calls on the kernel space.
C31_KernelHalfShared ==
    \A k \in AliveSpaces :
       /\ \A i \in (ENTRIES \div 2)..(ENTRIES - 1) :
             Entry(vmm.mem, vmm.space_pool[k].pml4, i)
                = Entry(vmm.mem, vmm.kernel_space.pml4, i)
       /\ \A va \in SharedVAs \cup {KernelVA(0)} :
             get_physical(Mach, k, va) = get_physical(Mach, kernel_id, va)

\* C31 while no map call on the kernel space has filled a top-level entry
\* that was absent: the kernel's top-level entries are those of vmm::init.
C31_SharedUnderInitialEntries ==
    (\A i \in (ENTRIES \div 2)..(ENTRIES - 2) :
        ~Has(Entry(vmm.mem, vmm.kernel_space.pml4, i), present))
       => C31_KernelHalfShared

(***************************************************************************)
(* Slab pages and the frame allocator                                      *)
(***************************************************************************)
\* the step is a kmalloc served by the slab allocator of a class
SlabKmalloc ==
    /\ last'.op = "kmalloc"
    /\ last'.size > 0
    /\ last'.size + SIZE_T <= PAGE_SIZE

\* the step is a kfree of an object of a slab
SlabKfree ==
    /\ last'.op = "kfree"
    /\ PageBase(last'.ptr) \in DOMAIN heap.slab_mem

\* C32: a slab-path kfree never changes the frame allocator's free count,
\* across slab-path calls that count never increases, and a slab-path
\* kmalloc asks for a new page only when its class has neither a partial
\* nor an empty slab (both list heads are null and no slab of the class
\* has a free slot).
C32_SlabFramesLazy ==
    [][/\ SlabKfree =>
            /\ pmm' = pmm
            /\ vmm' = vmm
            /\ DOMAIN heap'.slab_mem = DOMAIN heap.slab_mem
       /\ SlabKmalloc =>
            /\ get_stats(pmm').free_pages <= get_stats(pmm).free_pages
            /\ (pmm' # pmm \/ vmm' # vmm) =>
                  Let(find_slab(last'.size + SIZE_T), LAMBDA c :
                      /\ heap.slabs[c].partial_slabs = 0
                      /\ heap.slabs[c].empty_slabs = 0
                      /\ WithFreeSlot(c) = {})]_vars

\* C32 with the lists alone: the heads of the partial and the empty list
\* are null when a page is asked for
C32_SlabFramesLazyByHeads ==
    [][/\ SlabKfree =>
            /\ pmm' = pmm
            /\ vmm' = vmm
            /\ DOMAIN heap'.slab_mem = DOMAIN heap.slab_mem
       /\ SlabKmalloc =>
            /\ get_stats(pmm').free_pages <= get_stats(pmm).free_pages
            /\ (pmm' # pmm \/ vmm' # vmm) =>
                  Let(find_slab(last'.size + SIZE_T), LAMBDA c :
                      /\ heap.slabs[c].partial_slabs = 0
                      /\ heap.slabs[c].empty_slabs = 0)]_vars

(***************************************************************************)
(* Specification of kmalloc / kfree on one class with four slab pages      *)
(***************************************************************************)
\* live allocations at any time
MaxLazyLive == 8
\* slab pages of the class
MaxLazyPages == 4
\* kmalloc and kfree calls in all, counted in held
MaxLazyCalls == 21
\* frames of the normal zone: the kernel's tables, the tables of the heap
\* range and the slab pages
LazyFrames == 11

LazyBootStates ==
    { vmm_init([pmm |-> init_fallback(pmm_boot, KernelStart, KernelEnd,
                                      PageAddr(DMA_LIMIT + LazyFrames)),
                vmm |-> vmm_boot], KernelMapPages) }

InitLazy ==
    /\ \E M \in LazyBootStates : pmm = M.pmm /\ vmm = M.vmm
    /\ heap = heap_init
    /\ last = NoOp
    /\ held = 0
    /\ regions = {}
    /\ live = {}

KmallocLazy(size) ==
    /\ held < MaxLazyCalls
    /\ Cardinality(live) < MaxLazyLive
    /\ Let(kmalloc(Sys, size), LAMBDA r :
           /\ r.st.vmm.next_virt <= REGION_BASE + MaxLazyPages * PAGE_SIZE
           /\ pmm' = r.st.pmm
           /\ vmm' = r.st.vmm
           /\ heap' = r.st.heap
           /\ last' = [op |-> "kmalloc", size |-> size, ret |-> r.ret]
           /\ live' = IF r.ret # 0
                      THEN live \cup {[ptr |-> r.ret, size |-> size]}
                      ELSE live)
    /\ held' = held + 1
    /\ UNCHANGED regions

KfreeLazy(l) ==
    /\ held < MaxLazyCalls
    /\ l \in live
    /\ Let(kfree(Sys, l.ptr), LAMBDA S :
           /\ pmm' = S.pmm
           /\ vmm' = S.vmm
           /\ heap' = S.heap)
    /\ last' = [op |-> "kfree", ptr |-> l.ptr]
    /\ live' = live \ {l}
    /\ held' = held + 1
    /\ UNCHANGED regions

NextLazy ==
    \/ \E size \in SlabClassSizes : KmallocLazy(size)
    \/ \E l \in live : KfreeLazy(l)

SpecLazy == InitLazy /\ [][NextLazy]_vars

(***************************************************************************)
(* Specification of allocate_page run by two callers at once               *)
(* Every load and store of bitmap_allocator::allocate and mark_used and    *)
(* every fetch_add is one step.  held maps each caller to its position and *)
(* locals, live holds the returned addresses, regions the free counts      *)
(* after initialisation and whether two calls have ever overlapped.        *)
(***************************************************************************)
\* free frames of the normal zone
RaceFrames == 2
\* calls per caller
MaxRaceCalls == 2

Callers == {1, 2}

RaceBootStates ==
    { pmm_init(pmm_boot,
               << Region(PageAddr(DMA_LIMIT), PageAddr(RaceFrames), 1),
                  Region(PageAddr(HIGH_BASE), PageAddr(1), 1) >>,
               KernelStart, KernelEnd) }

IdleCaller ==
    [pc |-> "idle", zone |-> zone_normal, cur |-> zone_normal, i |-> 0,
     word |-> {}, page_num |-> NoPage, old_val |-> {}, hint |-> 0,
     calls |-> 0]

InitRace ==
    /\ pmm \in RaceBootStates
    /\ vmm = vmm_boot
    /\ heap = heap_boot
    /\ last = NoOp
    /\ held = [c \in Callers |-> IdleCaller]
    /\ regions = [raced |-> FALSE, free0 |-> FreeCounts(pmm)]
    /\ live = {}

\* bitmap[i] as the set of the clear bits of the word
load_word(z, i) == { p \in z.bitmap : p \div WORD_BITS = i }

\* bitmap[idx] = old_val | (1ULL << bit): the whole word is stored
store_word(z, page_num, old_val) ==
    [z EXCEPT !.bitmap =
        { p \in @ : p \div WORD_BITS # page_num \div WORD_BITS }
            \cup (old_val \ {page_num})]

\* a mark_used that counts whatever the bit was: a variant without the
\* comparison of the old and the new word
mark_used_always(old_val, page_num) == TRUE

\* old_val != new_val in mark_used
mark_used_changes(old_val, page_num) == page_num \in old_val

\* the zone allocate_page tries after zone `cur` has no page, for a request
\* on `zone`: high unless requested, then dma unless requested; -1 for none
next_zone(zone, cur) ==
    IF cur = zone /\ zone # zone_high THEN zone_high
    ELSE IF cur # zone_dma /\ zone # zone_dma THEN zone_dma
    ELSE 0 - 1

\* allocate_page(zone) is entered
RaceCall(c, zone) ==
    /\ held[c].pc = "idle"
    /\ held[c].calls < MaxRaceCalls
    /\ held' = [held EXCEPT ![c] = [@ EXCEPT !.pc = "hint", !.zone = zone,
                                            !.cur = zone,
                                            !.calls = @ + 1]]
    /\ regions' = [regions EXCEPT !.raced =
                      @ \/ \E d \in Callers \ {c} : held[d].pc # "idle"]
    /\ UNCHANGED <<pmm, vmm, heap, last, live>>

\* i = first_free_page / 64
RaceLoadHint(c) ==
    /\ held[c].pc = "hint"
    /\ held' = [held EXCEPT ![c] =
                  [@ EXCEPT !.pc = "scan",
                            !.i = pmm.zones[held[c].cur].first_free_page
                                     \div WORD_BITS]]
    /\ UNCHANGED <<pmm, vmm, heap, last, live, regions>>

\* the word loop up to the first word at or after i that is not full: the
\* rounds over full words are taken with it, since a full word stays full
\* while the callers only allocate; bitmap_size when there is none
first_open_word(z, i) ==
    Let({ p \in z.bitmap : i <= p \div WORD_BITS
                           /\ p \div WORD_BITS < z.bitmap_size }, LAMBDA open :
        IF open = {} THEN z.bitmap_size ELSE SetMin(open) \div WORD_BITS)

\* the load of bitmap[i] and the tests
RaceScan(c) ==
    /\ held[c].pc = "scan"
    /\ Let(pmm.zones[held[c].cur], LAMBDA z :
       Let(first_open_word(z, held[c].i), LAMBDA i :
       Let(load_word(z, i), LAMBDA word :
           held' = [held EXCEPT ![c] =
              IF i >= z.bitmap_size
              THEN [@ EXCEPT !.pc = "zone_done", !.page_num = NoPage,
                             !.i = i]
              ELSE IF SetMin(word) < z.total_pages
              THEN [@ EXCEPT !.pc = "mark_load", !.word = word, !.i = i,
                             !.page_num = SetMin(word)]
              ELSE [@ EXCEPT !.i = i + 1]])))
    /\ UNCHANGED <<pmm, vmm, heap, last, live, regions>>

\* mark_used: old_val = bitmap[idx]
RaceMarkLoad(c) ==
    /\ held[c].pc = "mark_load"
    /\ held' = [held EXCEPT ![c] =
                  [@ EXCEPT !.pc = "mark_store",
                            !.old_val =
                               load_word(pmm.zones[held[c].cur],
                                         held[c].page_num \div WORD_BITS)]]
    /\ UNCHANGED <<pmm, vmm, heap, last, live, regions>>

\* mark_used: the comparison and bitmap[idx] = new_val
RaceMarkStore(c) ==
    /\ held[c].pc = "mark_store"
    /\ IF mark_used_changes(held[c].old_val, held[c].page_num)
       THEN /\ pmm' = [pmm EXCEPT !.zones[held[c].cur] =
                          store_word(@, held[c].page_num, held[c].old_val)]
            /\ held' = [held EXCEPT ![c].pc = "mark_count"]
       ELSE /\ pmm' = pmm
            /\ held' = [held EXCEPT ![c].pc = "hint_load"]
    /\ UNCHANGED <<vmm, heap, last, live, regions>>

\* mark_used: free_pages.fetch_add(-1)
RaceMarkCount(c) ==
    /\ held[c].pc = "mark_count"
    /\ pmm' = [pmm EXCEPT !.zones[held[c].cur].free_pages = @ - 1]
    /\ held' = [held EXCEPT ![c].pc = "hint_load"]
    /\ UNCHANGED <<vmm, heap, last, live, regions>>

\* allocate: the load of first_free_page for the comparison
RaceHintLoad(c) ==
    /\ held[c].pc = "hint_load"
    /\ held' = [held EXCEPT ![c] =
                  [@ EXCEPT !.pc = "hint_store",
                            !.hint = pmm.zones[held[c].cur].first_free_page]]
    /\ UNCHANGED <<pmm, vmm, heap, last, live, regions>>

\* allocate: first_free_page = page_num + 1 when the page was the hint
RaceHintStore(c) ==
    /\ held[c].pc = "hint_store"
    /\ pmm' = IF held[c].page_num = held[c].hint
              THEN [pmm EXCEPT !.zones[held[c].cur].first_free_page =
                                   held[c].page_num + 1]
              ELSE pmm
    /\ held' = [held EXCEPT ![c].pc = "zone_done"]
    /\ UNCHANGED <<vmm, heap, last, live, regions>>

\* allocate_page after a zone's allocate has returned: the next zone, or
\* stats.free_pages.fetch_add(-1) and the address, or 0
RaceReturn(c) ==
    /\ held[c].pc = "zone_done"
    /\ IF held[c].page_num = NoPage
          /\ next_zone(held[c].zone, held[c].cur) # 0 - 1
       THEN /\ held' = [held EXCEPT ![c] =
                          [@ EXCEPT !.pc = "hint",
                                    !.cur = next_zone(held[c].zone,
                                                      held[c].cur)]]
            /\ UNCHANGED <<pmm, last, live>>
       ELSE /\ held' = [held EXCEPT ![c].pc = "idle"]
            /\ pmm' = IF held[c].page_num # NoPage
                      THEN [pmm EXCEPT !.stats.free_pages = @ - 1]
                      ELSE pmm
            /\ Let(IF held[c].page_num # NoPage
                   THEN ZoneAddr(held[c].cur, held[c].page_num)
                   ELSE Zero, LAMBDA ret :
                   /\ last' = [op |-> "allocate_page", caller |-> c,
                               zone |-> held[c].zone, ret |-> ret]
                   /\ live' = IF ret # Zero
                              THEN live \cup
                                     {[caller |-> c, n |-> held[c].calls,
                                       ret |-> ret]}
                              ELSE live)
    /\ UNCHANGED <<vmm, heap, regions>>

NextRace ==
    \E c \in Callers :
       \/ RaceCall(c, zone_normal)
       \/ RaceLoadHint(c)
       \/ RaceScan(c)
       \/ RaceMarkLoad(c)
       \/ RaceMarkStore(c)
       \/ RaceMarkCount(c)
       \/ RaceHintLoad(c)
       \/ RaceHintStore(c)
       \/ RaceReturn(c)

SpecRace == InitRace /\ [][NextRace]_vars

AllIdle == \A c \in Callers : held[c].pc = "idle"

\* two returned addresses are the same frame
SameFrameTwice ==
    \E a \in live : \E b \in live : a # b /\ a.ret = b.ret

\* the frames returned
Returned == { a.ret : a \in live }

\* C33: allocate is not synchronized.  While no two calls have overlapped,
\* no frame is returned twice, no returned frame is free and the counts
\* match the inventory; when the first calls of the two callers overlap,
\* both can return the same frame; the zone's free count has then dropped
\* once for every caller whose mark_used loaded the word with the bit still
\* clear (once when the second load follows the first store) while the
\* global count dropped once per call.
C33_UnsynchronizedAllocate ==
    /\ ~regions.raced =>
          /\ ~SameFrameTwice
          /\ AllIdle =>
                /\ Returned \cap FreeSet(pmm) = {}
                /\ \A z \in ZoneTypes :
                      pmm.zones[z].free_pages
                         = Cardinality(pmm.zones[z].bitmap)
                /\ pmm.stats.free_pages
                      = regions.free0.stats - Cardinality(live)
    /\ (AllIdle /\ \A c \in Callers : held[c].calls <= 1) =>
          /\ pmm.zones[zone_normal].free_pages
                = regions.free0.zones[zone_normal]
                    - Cardinality({ c \in Callers :
                                      /\ held[c].calls = 1
                                      /\ held[c].page_num
                                            \in held[c].old_val })
          /\ pmm.zones[zone_normal].free_pages
                <= regions.free0.zones[zone_normal] - Cardinality(Returned)
          /\ pmm.stats.free_pages
                = regions.free0.stats - Cardinality(live)

\* C33 witness: the first calls of the two callers have both returned the
\* same frame, and the zone's free count is one below its initial value.
C33_Witness ==
    /\ AllIdle
    /\ \A c \in Callers : held[c].calls = 1
    /\ Cardinality(live) = 2
    /\ Cardinality(Returned) = 1
    /\ pmm.zones[zone_normal].free_pages
          = regions.free0.zones[zone_normal] - 1

\* C33 witness of serialized calls: two calls that did not overlap have
\* returned different frames
C33_WitnessSerialized ==
    /\ AllIdle
    /\ ~regions.raced
    /\ Cardinality(Returned) >= 2

(***************************************************************************)
(* hft.trading: order_book                                                 *)
(* A book is [levels_, sequence_]; levels_ maps 0..max_levels-1 to         *)
(* [price, bid_quantity, ask_quantity].                                    *)
(***************************************************************************)
\* the template parameter MaxLevels of the books of the specifications
max_levels == 3

price_level == [price |-> 0, bid_quantity |-> 0, ask_quantity |-> 0]

order_book ==
    [levels_ |-> [k \in 0..(max_levels - 1) |-> price_level],
     sequence_ |-> 0]

\* lower_bound over levels_ with comp(level, p) = level.price < p: the
\* halving loop on (first, count)
RECURSIVE lower_bound(_, _, _, _)
lower_bound(levels, first, count, value) ==
    IF count <= 0 THEN first
    ELSE IF levels[first + count \div 2].price < value
    THEN lower_bound(levels, first + count \div 2 + 1,
                     count - (count \div 2 + 1), value)
    ELSE lower_bound(levels, first, count \div 2, value)

\* the loop *p = *(p - 1) for p from end() - 1 down to it + 1
shift_levels(levels, it) ==
    [k \in DOMAIN levels |-> IF k > it THEN levels[k - 1] ELSE levels[k]]

\* find_or_insert_price that appends at the first level never written when
\* the price is above every price of the array: a variant that stores such
\* a price over the level at the end
find_or_insert_price_at_end(book, price) ==
    Let(lower_bound(book.levels_, 0, max_levels, price), LAMBDA it :
        IF it < max_levels /\ book.levels_[it].price = price
        THEN [book |-> book, first |-> it, second |-> TRUE]
        ELSE Let(IF it < max_levels THEN it ELSE max_levels - 1, LAMBDA at :
                 [book |-> [book EXCEPT !.levels_ =
                              [shift_levels(@, at) EXCEPT ![at].price = price]],
                  first |-> at, second |-> TRUE]))

\* [book, first, second]: the pair returned and the book left
find_or_insert_price(book, price) ==
    Let(lower_bound(book.levels_, 0, max_levels, price), LAMBDA it :
        IF it < max_levels /\ book.levels_[it].price = price
        THEN [book |-> book, first |-> it, second |-> TRUE]
        ELSE IF it < max_levels
        THEN [book |-> [book EXCEPT !.levels_ =
                           [shift_levels(@, it) EXCEPT ![it].price = price]],
              first |-> it, second |-> TRUE]
        ELSE [book |-> book, first |-> 0, second |-> FALSE])

update_bid(book, price, quantity) ==
    Let(find_or_insert_price(book, price), LAMBDA r :
        [(IF r.second
          THEN [r.book EXCEPT !.levels_[r.first].bid_quantity = quantity]
          ELSE r.book) EXCEPT !.sequence_ = @ + 1])

update_ask(book, price, quantity) ==
    Let(find_or_insert_price(book, price), LAMBDA r :
        [(IF r.second
          THEN [r.book EXCEPT !.levels_[r.first].ask_quantity = quantity]
          ELSE r.book) EXCEPT !.sequence_ = @ + 1])

get_sequence(book) == book.sequence_

get_spread(book) ==
    [bid_price |-> book.levels_[0].price,
     ask_price |-> book.levels_[0].price,
     bid_size |-> book.levels_[0].bid_quantity,
     ask_size |-> book.levels_[0].ask_quantity]

(***************************************************************************)
(* Specification of update_bid / update_ask; heap holds the book           *)
(***************************************************************************)
\* updates in all
MaxUpdates == 3

\* prices below, at and above the price of a level never written, and
\* quantities
BookPrices == {0 - 2, 0 - 1, 0, 1}
BookQuantities == {1, 2}

InitBook ==
    /\ pmm = pmm_boot
    /\ vmm = vmm_boot
    /\ heap = order_book
    /\ last = NoOp
    /\ held = {}
    /\ regions = {}
    /\ live = {}

UpdateBid(price, quantity) ==
    /\ heap.sequence_ < MaxUpdates
    /\ heap' = update_bid(heap, price, quantity)
    /\ last' = [op |-> "update_bid", price |-> price, quantity |-> quantity]
    /\ UNCHANGED <<pmm, vmm, held, regions, live>>

UpdateAsk(price, quantity) ==
    /\ heap.sequence_ < MaxUpdates
    /\ heap' = update_ask(heap, price, quantity)
    /\ last' = [op |-> "update_ask", price |-> price, quantity |-> quantity]
    /\ UNCHANGED <<pmm, vmm, held, regions, live>>

NextBook ==
    \/ \E price \in BookPrices : \E quantity \in BookQuantities :
          UpdateBid(price, quantity)
    \/ \E price \in BookPrices : \E quantity \in BookQuantities :
          UpdateAsk(price, quantity)

SpecBook == InitBook /\ [][NextBook]_vars

(***************************************************************************)
(* Specification of update_bid / update_ask run by one writer while a      *)
(* reader calls get_sequence and get_spread.  heap holds the book, held    *)
(* the writer's position and locals, live the reader's, regions the books  *)
(* left by the completed updates (regions[m + 1] after m updates).  The    *)
(* copy of one level, each store and each load of the reader is one step.  *)
(***************************************************************************)
IdleWriter ==
    [pc |-> "idle", side |-> "bid", price |-> 0, quantity |-> 0, it |-> 0,
     p |-> 0]

IdleReader ==
    [pc |-> "idle", n |-> 0, spread |-> get_spread(order_book),
     alone |-> TRUE]

InitReader ==
    /\ pmm = pmm_boot
    /\ vmm = vmm_boot
    /\ heap = order_book
    /\ last = NoOp
    /\ held = IdleWriter
    /\ regions = << order_book >>
    /\ live = IdleReader

\* update_bid or update_ask is entered
WriterCall(side, price, quantity) ==
    /\ held.pc = "idle"
    /\ heap.sequence_ < MaxUpdates
    /\ held' = [IdleWriter EXCEPT !.pc = "search", !.side = side,
                                  !.price = price, !.quantity = quantity]
    /\ live' = [live EXCEPT !.alone = @ /\ live.pc \in {"idle", "done"}]
    /\ UNCHANGED <<pmm, vmm, heap, last, regions>>

\* find_or_insert_price: lower_bound and the tests that follow it
WriterSearch ==
    /\ held.pc = "search"
    /\ Let(lower_bound(heap.levels_, 0, max_levels, held.price), LAMBDA it :
           held' = [held EXCEPT
                      !.it = IF it < max_levels THEN it ELSE 0,
                      !.p = max_levels - 1,
                      !.pc = IF it < max_levels
                                /\ heap.levels_[it].price = held.price
                             THEN "quantity"
                             ELSE IF it < max_levels THEN "shift"
                             ELSE "publish"])
    /\ UNCHANGED <<pmm, vmm, heap, last, regions, live>>

\* one round of the shift loop: *p = *(p - 1)
WriterShift ==
    /\ held.pc = "shift"
    /\ IF held.p > held.it
       THEN /\ heap' = [heap EXCEPT !.levels_[held.p] =
                                       heap.levels_[held.p - 1]]
            /\ held' = [held EXCEPT !.p = @ - 1]
       ELSE /\ heap' = heap
            /\ held' = [held EXCEPT !.pc = "price"]
    /\ UNCHANGED <<pmm, vmm, last, regions, live>>

\* it->price = price
WriterPrice ==
    /\ held.pc = "price"
    /\ heap' = [heap EXCEPT !.levels_[held.it].price = held.price]
    /\ held' = [held EXCEPT !.pc = "quantity"]
    /\ UNCHANGED <<pmm, vmm, last, regions, live>>

\* levels_[idx].bid_quantity.store(quantity) or the ask side
WriterQuantity ==
    /\ held.pc = "quantity"
    /\ heap' = IF held.side = "bid"
               THEN [heap EXCEPT !.levels_[held.it].bid_quantity =
                                    held.quantity]
               ELSE [heap EXCEPT !.levels_[held.it].ask_quantity =
                                    held.quantity]
    /\ held' = [held EXCEPT !.pc = "publish"]
    /\ UNCHANGED <<pmm, vmm, last, regions, live>>

\* sequence_.fetch_add(1, release)
WriterPublish ==
    /\ held.pc = "publish"
    /\ heap' = [heap EXCEPT !.sequence_ = @ + 1]
    /\ regions' = Append(regions, heap')
    /\ held' = [held EXCEPT !.pc = "idle"]
    /\ last' = [op |-> "update", side |-> held.side, price |-> held.price,
                quantity |-> held.quantity]
    /\ UNCHANGED <<pmm, vmm, live>>

\* get_sequence()
ReaderSequence ==
    /\ live.pc \in {"idle", "done"}
    /\ live' = [IdleReader EXCEPT !.pc = "bid_price",
                                  !.n = get_sequence(heap),
                                  !.alone = held.pc = "idle"]
    /\ UNCHANGED <<pmm, vmm, heap, last, held, regions>>

\* get_spread(): the four loads in the order of the initializers
ReaderBidPrice ==
    /\ live.pc = "bid_price"
    /\ live' = [live EXCEPT !.pc = "ask_price",
                            !.spread.bid_price = heap.levels_[0].price]
    /\ UNCHANGED <<pmm, vmm, heap, last, held, regions>>

ReaderAskPrice ==
    /\ live.pc = "ask_price"
    /\ live' = [live EXCEPT !.pc = "bid_size",
                            !.spread.ask_price = heap.levels_[0].price]
    /\ UNCHANGED <<pmm, vmm, heap, last, held, regions>>

ReaderBidSize ==
    /\ live.pc = "bid_size"
    /\ live' = [live EXCEPT !.pc = "ask_size",
                            !.spread.bid_size =
                               heap.levels_[0].bid_quantity]
    /\ UNCHANGED <<pmm, vmm, heap, last, held, regions>>

ReaderAskSize ==
    /\ live.pc = "ask_size"
    /\ live' = [live EXCEPT !.pc = "done",
                            !.spread.ask_size =
                               heap.levels_[0].ask_quantity]
    /\ UNCHANGED <<pmm, vmm, heap, last, held, regions>>

NextReader ==
    \/ \E price \in BookPrices : \E quantity \in BookQuantities :
          \E side \in {"bid", "ask"} : WriterCall(side, price, quantity)
    \/ WriterSearch
    \/ WriterShift
    \/ WriterPrice
    \/ WriterQuantity
    \/ WriterPublish
    \/ ReaderSequence
    \/ ReaderBidPrice
    \/ ReaderAskPrice
    \/ ReaderBidSize
    \/ ReaderAskSize

SpecReader == InitReader /\ [][NextReader]_vars

\* the book the running update will leave
PendingBook ==
    IF held.side = "bid"
    THEN update_bid(regions[Len(regions)], held.price, held.quantity)
    ELSE update_ask(regions[Len(regions)], held.price, held.quantity)

\* C34: a reader that reads sequence value n and then the book sees the
\* complete effect of the first n updates and never a partially committed
\* update: what get_spread returns is the spread of the book as one of the
\* completed updates from the n-th on left it, or as the running update
\* will leave it.
C34_SequencePublishes ==
    live.pc = "done" =>
       \/ \E m \in live.n..(Len(regions) - 1) :
             live.spread = get_spread(regions[m + 1])
       \/ held.pc # "idle" /\ live.spread = get_spread(PendingBook)

\* C34 for the reads during which no update was running: the spread is
\* that of the book after n updates.
C34_PublishedWhenAlone ==
    (live.pc = "done" /\ live.alone) =>
       live.spread = get_spread(regions[live.n + 1])


(***************************************************************************)
(* hft.heap: the counters get_stats reports                                *)
(***************************************************************************)
\* heap::get_stats: the two byte counters and the per-class object counts
heap_get_stats(H) ==
    [used |-> H.heap_used,
     allocated |-> H.heap_allocated,
     slab_free |-> [i \in 1..num_slabs |-> H.slabs[i].free_objects],
     slab_total |-> [i \in 1..num_slabs |-> H.slabs[i].total_objects]]

\* live allocations kmalloc served from a slab, and from whole pages
LiveSlab(L) == {l \in L : l.size + SIZE_T <= PAGE_SIZE}

LiveLarge(L) == L \ LiveSlab(L)

\* the page-rounded bytes kmalloc adds to heap_allocated for the live
\* large allocations
RECURSIVE SumLargeBytes(_)
SumLargeBytes(L) ==
    IF L = {} THEN 0
    ELSE Let(CHOOSE l \in L : TRUE, LAMBDA l :
             ((l.size + SIZE_T + PAGE_SIZE - 1) \div PAGE_SIZE) * PAGE_SIZE
                 + SumLargeBytes(L \ {l}))

\* the counters agree with the set L of live allocations
StatsMatchLive(H, L) ==
    Let(heap_get_stats(H), LAMBDA stats :
        /\ stats.used = SumSizes(L)
        /\ stats.allocated = SumLargeBytes(LiveLarge(L))
        /\ \A c \in 1..num_slabs :
              stats.slab_total[c] - stats.slab_free[c]
                  = Cardinality({l \in LiveSlab(L) :
                                    find_slab(l.size + SIZE_T) = c}))

\* C35: after every kmalloc and every kfree of a live pointer, used is the
\* sum of the requested sizes of the live allocations, allocated is the
\* page-rounded bytes of the live large allocations, and for every class
\* total minus free objects is the number of live objects of the class; a
\* kmalloc that returns nullptr leaves all these counters as they were.
C35_StatsMatchLive ==
    [][/\ StatsMatchLive(heap', live')
       /\ (last'.op = "kmalloc" /\ last'.ret = 0)
             => heap_get_stats(heap') = heap_get_stats(heap)]_vars

\* C35 witness: a large allocation is live and a kmalloc of a size of the
\* smallest class has just returned nullptr
C35_Witness ==
    /\ last.op = "kmalloc"
    /\ last.size = 8
    /\ last.ret = 0
    /\ LiveLarge(live) # {}

\* C35 witness: a slab object and a large allocation are live together
C35_WitnessBoth ==
    /\ LiveSlab(live) # {}
    /\ LiveLarge(live) # {}
    /\ heap.heap_allocated > 0

\* C35 witness: a kfree has just released one of two live slab objects
C35_WitnessFree ==
    /\ last.op = "kfree"
    /\ LiveSlab(live) # {}
    /\ heap.heap_used > 0

(***************************************************************************)
(* address_space::mapped_pages and the leaf entries of the tree            *)
(***************************************************************************)
\* the present entries of the page tables of the kernel address space, as
\* pairs of table and index
PresentLeafEntries ==
    UNION { { <<t, i>> : i \in { j \in DOMAIN vmm.mem[t] :
                                    Has(vmm.mem[t][j], present) } } :
            t \in KernelPts \cap DOMAIN vmm.mem }

\* C36: after any sequence of map and unmap calls on the address space its
\* mapped-page counter equals the number of present leaf entries of its
\* tree, also when map was called on an address that was already mapped.
C36_CounterIsPresentLeaves ==
    vmm.kernel_space.mapped_pages = Cardinality(PresentLeafEntries)

\* the counter never falls below the number of present leaf entries
C36_CounterAtLeastLeaves ==
    vmm.kernel_space.mapped_pages >= Cardinality(PresentLeafEntries)

\* the two numbers change together in every call but a successful map on
\* an address whose leaf entry was already present
C36_CounterFollowsFreshMaps ==
    [][(last'.op = "map" /\ last'.ret
           /\ walk_pt(Mach, kernel_id, last'.va) # Zero
           /\ Has(Entry(vmm.mem, walk_pt(Mach, kernel_id, last'.va),
                        last'.va.pt_index), present))
       \/ vmm'.kernel_space.mapped_pages - vmm.kernel_space.mapped_pages
            = Cardinality(PresentLeafEntries')
                - Cardinality(PresentLeafEntries)]_vars

(***************************************************************************)
(* hft.concurrent: spsc_queue                                              *)
(***************************************************************************)
\* Size is 2^SpscBits, as the requires clause demands a power of two
SpscBits == 2

SpscSize == 2 ^ SpscBits

\* x & index_mask for a size_t x: the low SpscBits bits
index_mask(x) == x % SpscSize

spsc_queue ==
    [write_idx_ |-> 0, read_idx_ |-> 0,
     buffer_ |-> [k \in 0..(SpscSize - 1) |-> 0]]

min(a, b) == IF a < b THEN a ELSE b

\* try_push_bulk's count of free slots, with every slot counted: a variant
\* that takes the slot kept empty for a free one
available_all(read_pos, write_pos) == index_mask(read_pos - write_pos)

\* try_push_bulk: const size_t available
available(read_pos, write_pos) == index_mask(read_pos - write_pos - 1)

\* the slot try_push_bulk copies items[i] to: the first part goes to
\* buffer_[write_pos ...], the rest to buffer_[0 ...]
bulk_slot(write_pos, to_write, i) ==
    IF i < min(to_write, SpscSize - write_pos)
    THEN write_pos + i
    ELSE i - min(to_write, SpscSize - write_pos)

(***************************************************************************)
(* Specification of spsc_queue with one producer and one consumer.  heap   *)
(* holds the queue, held the producer's position and locals, live the      *)
(* consumer's, regions the items offered so far and the items of the       *)
(* successful pushes and pops in the order of their index stores, last     *)
(* the call that returned last.  Items are numbered in the order they are  *)
(* offered.  Each index load, index store and slot access is one step.     *)
(***************************************************************************)
\* items offered to the queue in one run
MaxItems == 6

\* the largest count passed to try_push_bulk
MaxBulk == 4

IdleProducer ==
    [pc |-> "idle", op |-> "try_push", first |-> 0, count |-> 0,
     write_pos |-> 0, next_pos |-> 0, to_write |-> 0, i |-> 0, free |-> 0]

IdleConsumer == [pc |-> "idle", read_pos |-> 0, item |-> 0]

\* items whose push has succeeded and whose pop has not yet stored read_idx_
Queued == Len(regions.pushed) - Len(regions.popped)

InitSpsc ==
    /\ pmm = pmm_boot
    /\ vmm = vmm_boot
    /\ heap = spsc_queue
    /\ last = NoOp
    /\ held = IdleProducer
    /\ regions = [offered |-> 0, pushed |-> << >>, popped |-> << >>]
    /\ live = IdleConsumer

\* try_push or try_emplace is entered with the next item
TryPush(op) ==
    /\ held.pc = "idle"
    /\ regions.offered < MaxItems
    /\ held' = [IdleProducer EXCEPT !.pc = "push_write_idx", !.op = op,
                                    !.first = regions.offered + 1,
                                    !.count = 1]
    /\ regions' = [regions EXCEPT !.offered = @ + 1]
    /\ UNCHANGED <<pmm, vmm, heap, last, live>>

\* write_idx_.load(relaxed) and next_pos
PushLoadWrite ==
    /\ held.pc = "push_write_idx"
    /\ held' = [held EXCEPT !.pc = "push_read_idx",
                            !.write_pos = heap.write_idx_,
                            !.next_pos = index_mask(heap.write_idx_ + 1)]
    /\ UNCHANGED <<pmm, vmm, heap, last, regions, live>>

\* read_idx_.load(acquire) and the test for a full queue
PushLoadRead ==
    /\ held.pc = "push_read_idx"
    /\ IF held.next_pos = heap.read_idx_
       THEN /\ held' = IdleProducer
            /\ last' = [op |-> held.op, ret |-> 0, count |-> 1,
                        queued |-> Queued, free |-> SpscSize - 1 - Queued,
                        write_pos |-> held.write_pos]
       ELSE /\ held' = [held EXCEPT !.pc = "push_store"]
            /\ UNCHANGED last
    /\ UNCHANGED <<pmm, vmm, heap, regions, live>>

\* buffer_[write_pos] = item, or construct_at(&buffer_[write_pos], ...)
PushStore ==
    /\ held.pc = "push_store"
    /\ heap' = [heap EXCEPT !.buffer_[held.write_pos] = held.first]
    /\ held' = [held EXCEPT !.pc = "push_publish"]
    /\ UNCHANGED <<pmm, vmm, last, regions, live>>

\* write_idx_.store(next_pos, release); return true
PushPublish ==
    /\ held.pc = "push_publish"
    /\ heap' = [heap EXCEPT !.write_idx_ = held.next_pos]
    /\ last' = [op |-> held.op, ret |-> 1, count |-> 1, queued |-> Queued,
                free |-> SpscSize - 1 - Queued,
                write_pos |-> held.write_pos]
    /\ regions' = [regions EXCEPT !.pushed = Append(@, held.first)]
    /\ held' = IdleProducer
    /\ UNCHANGED <<pmm, vmm, live>>

\* try_push_bulk(items, count) is entered with the next count items
TryPushBulk(count) ==
    /\ held.pc = "idle"
    /\ regions.offered + count <= MaxItems
    /\ held' = [IdleProducer EXCEPT !.pc = "bulk_write_idx",
                                    !.op = "try_push_bulk",
                                    !.first = regions.offered + 1,
                                    !.count = count]
    /\ regions' = [regions EXCEPT !.offered = @ + count]
    /\ UNCHANGED <<pmm, vmm, heap, last, live>>

\* write_idx_.load(relaxed)
BulkLoadWrite ==
    /\ held.pc = "bulk_write_idx"
    /\ held' = [held EXCEPT !.pc = "bulk_read_idx",
                            !.write_pos = heap.write_idx_]
    /\ UNCHANGED <<pmm, vmm, heap, last, regions, live>>

\* read_idx_.load(acquire), available, to_write and the test for 0
BulkLoadRead ==
    /\ held.pc = "bulk_read_idx"
    /\ Let(min(held.count, available(heap.read_idx_, held.write_pos)),
           LAMBDA to_write :
           IF to_write = 0
           THEN /\ held' = IdleProducer
                /\ last' = [op |-> "try_push_bulk", ret |-> 0,
                            count |-> held.count, queued |-> Queued,
                            free |-> SpscSize - 1 - Queued,
                            write_pos |-> held.write_pos]
           ELSE /\ held' = [held EXCEPT !.pc = "bulk_copy",
                                        !.to_write = to_write,
                                        !.free = SpscSize - 1 - Queued]
                /\ UNCHANGED last)
    /\ UNCHANGED <<pmm, vmm, heap, regions, live>>

\* the two memcpy calls, one item a step
BulkCopy ==
    /\ held.pc = "bulk_copy"
    /\ heap' = [heap EXCEPT
                   !.buffer_[bulk_slot(held.write_pos, held.to_write,
                                       held.i)] = held.first + held.i]
    /\ held' = [held EXCEPT !.i = @ + 1,
                            !.pc = IF held.i + 1 = held.to_write
                                   THEN "bulk_publish" ELSE "bulk_copy"]
    /\ UNCHANGED <<pmm, vmm, last, regions, live>>

\* write_idx_.store((write_pos + to_write) & index_mask, release)
BulkPublish ==
    /\ held.pc = "bulk_publish"
    /\ heap' = [heap EXCEPT
                   !.write_idx_ = index_mask(held.write_pos + held.to_write)]
    /\ last' = [op |-> "try_push_bulk", ret |-> held.to_write,
                count |-> held.count, queued |-> SpscSize - 1 - held.free,
                free |-> held.free, write_pos |-> held.write_pos]
    /\ regions' = [regions EXCEPT
                      !.pushed = @ \o [k \in 1..held.to_write |->
                                          held.first + k - 1]]
    /\ held' = IdleProducer
    /\ UNCHANGED <<pmm, vmm, live>>

\* try_pop is entered
TryPop ==
    /\ live.pc = "idle"
    /\ live' = [IdleConsumer EXCEPT !.pc = "pop_read_idx"]
    /\ UNCHANGED <<pmm, vmm, heap, last, held, regions>>

\* read_idx_.load(relaxed)
PopLoadRead ==
    /\ live.pc = "pop_read_idx"
    /\ live' = [live EXCEPT !.pc = "pop_write_idx",
                            !.read_pos = heap.read_idx_]
    /\ UNCHANGED <<pmm, vmm, heap, last, held, regions>>

\* write_idx_.load(acquire) and the test for an empty queue
PopLoadWrite ==
    /\ live.pc = "pop_write_idx"
    /\ IF live.read_pos = heap.write_idx_
       THEN /\ live' = IdleConsumer
            /\ last' = [op |-> "try_pop", ret |-> 0, count |-> 1,
                        queued |-> Queued, free |-> SpscSize - 1 - Queued,
                        write_pos |-> heap.write_idx_]
       ELSE /\ live' = [live EXCEPT !.pc = "pop_move"]
            /\ UNCHANGED last
    /\ UNCHANGED <<pmm, vmm, heap, held, regions>>

\* item = move(buffer_[read_pos])
PopMove ==
    /\ live.pc = "pop_move"
    /\ live' = [live EXCEPT !.pc = "pop_publish",
                            !.item = heap.buffer_[live.read_pos]]
    /\ UNCHANGED <<pmm, vmm, heap, last, held, regions>>

\* read_idx_.store((read_pos + 1) & index_mask, release); return true
PopPublish ==
    /\ live.pc = "pop_publish"
    /\ heap' = [heap EXCEPT !.read_idx_ = index_mask(live.read_pos + 1)]
    /\ last' = [op |-> "try_pop", ret |-> 1, count |-> 1,
                queued |-> Queued, free |-> SpscSize - 1 - Queued,
                write_pos |-> heap.write_idx_]
    /\ regions' = [regions EXCEPT !.popped = Append(@, live.item)]
    /\ live' = IdleConsumer
    /\ UNCHANGED <<pmm, vmm, held>>

NextSpsc ==
    \/ TryPush("try_push")
    \/ TryPush("try_emplace")
    \/ PushLoadWrite
    \/ PushLoadRead
    \/ PushStore
    \/ PushPublish
    \/ \E count \in 0..MaxBulk : TryPushBulk(count)
    \/ BulkLoadWrite
    \/ BulkLoadRead
    \/ BulkCopy
    \/ BulkPublish
    \/ TryPop
    \/ PopLoadRead
    \/ PopLoadWrite
    \/ PopMove
    \/ PopPublish

SpecSpsc == InitSpsc /\ [][NextSpsc]_vars

\* the slot of the k-th queued item, counted from read_idx_
QueuedSlot(k) == index_mask(heap.read_idx_ + k - 1)

\* C37: with one producer and one consumer the queue is a FIFO of capacity
\* Size - 1: the popped items are the pushed items in push order, every
\* queued item is still in its slot (no slot is overwritten before it was
\* popped), a push fails only with Size - 1 items queued, try_pop fails
\* only on the empty queue, and try_push_bulk(items, k) stores exactly the
\* first min(k, free slots) items in order, wrapping at the buffer end.
C37_SpscFifo ==
    /\ Len(regions.popped) <= Len(regions.pushed)
    /\ regions.popped = SubSeq(regions.pushed, 1, Len(regions.popped))
    /\ Queued <= SpscSize - 1
    /\ \A k \in 1..Queued :
          heap.buffer_[QueuedSlot(k)]
              = regions.pushed[Len(regions.popped) + k]
    /\ live.pc = "pop_publish"
          => live.item = regions.pushed[Len(regions.popped) + 1]
    /\ (last.op \in {"try_push", "try_emplace"} /\ last.ret = 0)
          => last.queued = SpscSize - 1
    /\ (last.op = "try_pop" /\ last.ret = 0) => last.queued = 0
    /\ last.op = "try_push_bulk" => last.ret = min(last.count, last.free)

\* C37 witness: try_push_bulk has stored fewer items than offered, in two
\* parts around the buffer end, after earlier items were popped
C37_Witness ==
    /\ last.op = "try_push_bulk"
    /\ last.ret >= 2
    /\ last.ret < last.count
    /\ last.write_pos + last.ret > SpscSize
    /\ regions.popped # << >>

\* C37 witness: try_push has failed on a queue of Size - 1 items while the
\* consumer was inside try_pop
C37_WitnessFull ==
    /\ last.op = "try_push"
    /\ last.ret = 0
    /\ live.pc = "pop_publish"

\* C37 witness: try_pop has failed while the producer had stored an item
\* and not yet its index
C37_WitnessEmpty ==
    /\ last.op = "try_pop"
    /\ last.ret = 0
    /\ held.pc \in {"push_publish", "bulk_publish"}

(***************************************************************************)
(* hft.concurrent: mpsc_queue over static_pool                             *)
(*                                                                         *)
(* Nodes are numbered 1..MpscSize in the order of their place in the       *)
(* pool's storage; 0 is nullptr.                                           *)
(***************************************************************************)
\* Size of mpsc_queue<T, Size>
MpscSize == 2

\* static_pool: storage of N objects and the index of the next one
static_pool == [next_free |-> 0]

\* node: next{nullptr} and data
node == [next |-> 0, data |-> 0]

mpsc_queue ==
    [head_ |-> 0, tail_ |-> 0, pool_ |-> static_pool,
     nodes |-> [n \in 1..MpscSize |-> node]]

(***************************************************************************)
(* Specification of mpsc_queue with two producers and one consumer.  heap  *)
(* holds the queue, held each producer's position and locals, live the     *)
(* consumer's, regions the number of items offered, the items in the       *)
(* order of the head exchanges, the items popped and whether every call    *)
(* so far was entered while no other call was running, last the call that  *)
(* returned last.  Each load and each store of a shared object is one      *)
(* step; next_free++ is a load and a store.                                *)
(***************************************************************************)
\* items offered to the queue in one run
MaxOffered == 4

\* pops that take an item in one run: one more than the items offered
MaxPopped == 5

Producers == {1, 2}

IdlePusher ==
    [pc |-> "idle", item |-> 0, next_free |-> 0, new_node |-> 0,
     prev_head |-> 0]

IdlePopper == [pc |-> "idle", item |-> 0, next |-> 0]

InitMpsc ==
    /\ pmm = pmm_boot
    /\ vmm = vmm_boot
    /\ heap = mpsc_queue
    /\ last = NoOp
    /\ held = [p \in Producers |-> IdlePusher]
    /\ regions = [offered |-> 0, order |-> << >>, popped |-> << >>,
                  serial |-> TRUE]
    /\ live = IdlePopper

\* items whose node is the queue's: exchanged into head_ and not yet popped
InQueue == Len(regions.order) - Len(regions.popped)

\* try_push(item) is entered by producer p with the next item
MpscPush(p) ==
    /\ held[p].pc = "idle"
    /\ regions.offered < MaxOffered
    /\ held' = [held EXCEPT ![p] = [IdlePusher EXCEPT
                                       !.pc = "allocate",
                                       !.item = regions.offered + 1]]
    /\ regions' = [regions EXCEPT
                      !.offered = @ + 1,
                      !.serial = @ /\ live.pc = "idle"
                                   /\ \A q \in Producers :
                                         held[q].pc = "idle"]
    /\ UNCHANGED <<pmm, vmm, heap, last, live>>

\* pool_.allocate(): the test of next_free and the load of next_free++;
\* try_push returns false on nullptr
MpscAllocate(p) ==
    /\ held[p].pc = "allocate"
    /\ IF heap.pool_.next_free >= MpscSize
       THEN /\ held' = [held EXCEPT ![p] = IdlePusher]
            /\ last' = [op |-> "try_push", ret |-> FALSE,
                        item |-> held[p].item, queued |-> InQueue,
                        busy |-> {q \in Producers \ {p} :
                                     held[q].pc # "idle"},
                        popping |-> live.pc # "idle"]
       ELSE /\ held' = [held EXCEPT ![p].pc = "construct",
                                    ![p].next_free = heap.pool_.next_free]
            /\ UNCHANGED last
    /\ UNCHANGED <<pmm, vmm, heap, regions, live>>

\* the store of next_free++ and construct_at of the node
MpscConstruct(p) ==
    /\ held[p].pc = "construct"
    /\ heap' = [heap EXCEPT
                   !.pool_.next_free = held[p].next_free + 1,
                   !.nodes[held[p].next_free + 1] = node]
    /\ held' = [held EXCEPT ![p].pc = "store_data",
                            ![p].new_node = held[p].next_free + 1]
    /\ UNCHANGED <<pmm, vmm, last, regions, live>>

\* new_node->data = item
MpscStoreData(p) ==
    /\ held[p].pc = "store_data"
    /\ heap' = [heap EXCEPT !.nodes[held[p].new_node].data = held[p].item]
    /\ held' = [held EXCEPT ![p].pc = "store_next"]
    /\ UNCHANGED <<pmm, vmm, last, regions, live>>

\* new_node->next.store(nullptr, relaxed)
MpscStoreNext(p) ==
    /\ held[p].pc = "store_next"
    /\ heap' = [heap EXCEPT !.nodes[held[p].new_node].next = 0]
    /\ held' = [held EXCEPT ![p].pc = "exchange"]
    /\ UNCHANGED <<pmm, vmm, last, regions, live>>

\* prev_head = head_.exchange(new_node, acq_rel)
MpscExchange(p) ==
    /\ held[p].pc = "exchange"
    /\ heap' = [heap EXCEPT !.head_ = held[p].new_node]
    /\ held' = [held EXCEPT ![p].pc = "link",
                            ![p].prev_head = heap.head_]
    /\ regions' = [regions EXCEPT !.order = Append(@, held[p].item)]
    /\ UNCHANGED <<pmm, vmm, last, live>>

\* prev_head->next.store(new_node, release) or tail_ = new_node;
\* return true
MpscLink(p) ==
    /\ held[p].pc = "link"
    /\ heap' = IF held[p].prev_head # 0
               THEN [heap EXCEPT
                        !.nodes[held[p].prev_head].next = held[p].new_node]
               ELSE [heap EXCEPT !.tail_ = held[p].new_node]
    /\ last' = [op |-> "try_push", ret |-> TRUE, item |-> held[p].item,
                queued |-> InQueue,
                busy |-> {q \in Producers \ {p} : held[q].pc # "idle"},
                popping |-> live.pc # "idle"]
    /\ held' = [held EXCEPT ![p] = IdlePusher]
    /\ UNCHANGED <<pmm, vmm, regions, live>>

\* try_pop is entered: if (!tail_) return false
MpscPop ==
    /\ live.pc = "idle"
    /\ Len(regions.popped) < MaxPopped
    /\ IF heap.tail_ = 0
       THEN /\ last' = [op |-> "try_pop", ret |-> FALSE, item |-> 0,
                        queued |-> InQueue,
                        busy |-> {q \in Producers : held[q].pc # "idle"},
                        popping |-> FALSE]
            /\ UNCHANGED live
       ELSE /\ live' = [IdlePopper EXCEPT !.pc = "move_data"]
            /\ UNCHANGED last
    /\ regions' = [regions EXCEPT
                      !.serial = @ /\ \A q \in Producers :
                                         held[q].pc = "idle"]
    /\ UNCHANGED <<pmm, vmm, heap, held>>

\* item = move(tail_->data)
MpscMoveData ==
    /\ live.pc = "move_data"
    /\ live' = [live EXCEPT !.pc = "load_next",
                            !.item = heap.nodes[heap.tail_].data]
    /\ UNCHANGED <<pmm, vmm, heap, last, held, regions>>

\* next = tail_->next.load(acquire)
MpscLoadNext ==
    /\ live.pc = "load_next"
    /\ live' = [live EXCEPT !.pc = "store_tail",
                            !.next = heap.nodes[heap.tail_].next]
    /\ UNCHANGED <<pmm, vmm, heap, last, held, regions>>

\* pool_.deallocate(tail_), which destroys the node and keeps next_free;
\* tail_ = next
MpscStoreTail ==
    /\ live.pc = "store_tail"
    /\ heap' = [heap EXCEPT !.tail_ = live.next]
    /\ live' = [live EXCEPT !.pc = "store_head"]
    /\ regions' = [regions EXCEPT !.popped = Append(@, live.item)]
    /\ UNCHANGED <<pmm, vmm, last, held>>

\* if (!tail_) head_.store(nullptr, release); return true
MpscStoreHead ==
    /\ live.pc = "store_head"
    /\ heap' = IF heap.tail_ = 0 THEN [heap EXCEPT !.head_ = 0] ELSE heap
    /\ last' = [op |-> "try_pop", ret |-> TRUE, item |-> live.item,
                queued |-> InQueue,
                busy |-> {q \in Producers : held[q].pc # "idle"},
                popping |-> FALSE]
    /\ live' = IdlePopper
    /\ UNCHANGED <<pmm, vmm, held, regions>>

NextMpsc ==
    \/ \E p \in Producers :
          \/ MpscPush(p)
          \/ MpscAllocate(p)
          \/ MpscConstruct(p)
          \/ MpscStoreData(p)
          \/ MpscStoreNext(p)
          \/ MpscExchange(p)
          \/ MpscLink(p)
    \/ MpscPop
    \/ MpscMoveData
    \/ MpscLoadNext
    \/ MpscStoreTail
    \/ MpscStoreHead

SpecMpsc == InitMpsc /\ [][NextMpsc]_vars

\* the data of the nodes linked from node n, at most fuel of them
RECURSIVE ChainFrom(_, _)
ChainFrom(n, fuel) ==
    IF n = 0 \/ fuel = 0 THEN << >>
    ELSE << heap.nodes[n].data >> \o ChainFrom(heap.nodes[n].next, fuel - 1)

\* no call is running
MpscQuiet ==
    /\ live.pc = "idle"
    /\ \A p \in Producers : held[p].pc = "idle"

\* C38: no pushed item is lost or duplicated.  The items popped are, in
\* order, the first items of the order of the head exchanges, and once no
\* call is running the items not yet popped are the ones the consumer
\* reaches from tail_, in that order, so that enough pops return them.
C38_NoLossNoDuplicate ==
    /\ Len(regions.popped) <= Len(regions.order)
    /\ regions.popped = SubSeq(regions.order, 1, Len(regions.popped))
    /\ MpscQuiet =>
          regions.order = regions.popped \o ChainFrom(heap.tail_, MpscSize + 1)

\* C38 for the runs whose calls run one after the other
C38_NoLossWhenSerial ==
    (regions.serial /\ MpscQuiet)
       => regions.order = regions.popped \o ChainFrom(heap.tail_, MpscSize + 1)

\* C39: the queue is bounded by the items currently queued: try_push
\* returns false only when Size nodes are in use, by queued items or by
\* pushes that are still running, because try_pop gives its node back; a
\* queue that was filled and drained accepts Size further items.
C39_BoundedByQueued ==
    (last.op = "try_push" /\ ~last.ret)
       => last.queued + Cardinality(last.busy) >= MpscSize

\* try_push returns false only when Size pushes have taken a node since
\* construction, whether or not their items were popped since
C39_BoundedByEverPushed ==
    (last.op = "try_push" /\ ~last.ret)
       => Len(regions.order) + Cardinality(last.busy) >= MpscSize

(***************************************************************************)
(* order_book: the level an update leaves                                  *)
(***************************************************************************)
\* the levels an update has written: every level starts as price_level
\* with price 0 and no quantity, and updates store positive quantities
WrittenLevels(book) ==
    { k \in DOMAIN book.levels_ : book.levels_[k] # price_level }

\* the distinct prices the book holds
BookHeldPrices(book) ==
    { book.levels_[k].price : k \in WrittenLevels(book) }

\* the written levels other than those of price p, as values
OtherLevels(book, p) ==
    { book.levels_[k] : k \in { j \in WrittenLevels(book) :
                                   book.levels_[j].price # p } }

\* the levels are in ascending order of price over the whole array
LevelsSorted(book) ==
    \A k \in 0..(max_levels - 2) :
       book.levels_[k].price <= book.levels_[k + 1].price

\* what C40 states of the update from book `before` to book `after`
UpdateSetsLevel(before, after, op, p, q) ==
    /\ Cardinality({ k \in WrittenLevels(after) :
                        after.levels_[k].price = p }) = 1
    /\ \A k \in WrittenLevels(after) :
          after.levels_[k].price = p
             => IF op = "update_bid"
                THEN after.levels_[k].bid_quantity = q
                ELSE after.levels_[k].ask_quantity = q
    /\ LevelsSorted(after)
    /\ OtherLevels(after, p) = OtherLevels(before, p)
    /\ get_sequence(after) = get_sequence(before) + 1

\* C40: on a book holding fewer than max_levels distinct prices,
\* update_bid(p, q) (update_ask) leaves exactly one level of price p, with
\* bid (ask) quantity q, for every price p, also one above all prices of
\* the book; the levels stay sorted, every other level keeps its price and
\* quantities, and the sequence number is one higher.
C40_UpdateSetsLevel ==
    [][Cardinality(BookHeldPrices(heap)) < max_levels
          => UpdateSetsLevel(heap, heap', last'.op, last'.price,
                             last'.quantity)]_vars

\* C40 for the prices that are not above the price of every level of the
\* array, the levels never written (price 0) included
C40_UpdateSetsLevelBelowEnd ==
    [][(/\ Cardinality(BookHeldPrices(heap)) < max_levels
        /\ lower_bound(heap.levels_, 0, max_levels, last'.price)
              < max_levels)
          => UpdateSetsLevel(heap, heap', last'.op, last'.price,
                             last'.quantity)]_vars


====
